---- MODULE Spec2Model ----
(***************************************************************************)
(* Model of the AHAP pattern construction engine (package ahap):           *)
(* the document model, the curve interpolator, the musical time converter, *)
(* the fluent builder with its staging objects and the sequence generator. *)
(*                                                                         *)
(* Go float64 values are modelled as binary floating-point numbers with a  *)
(* MantBits-bit significand and round-to-nearest-even after every          *)
(* operation (the exponent range is never exhausted by the modelled        *)
(* inputs).  Go ints are TLA+ integers.  A Go pointer that may be nil is a *)
(* sequence of length 0 (nil) or 1 (the pointee).  Record constructors     *)
(* list their fields in one fixed order throughout.                        *)
(***************************************************************************)
EXTENDS Integers, Sequences, FiniteSets

\* ------------------------------------------------------------------------
\* Bounds of the model
\* ------------------------------------------------------------------------
MantBits == 6      \* significand bits of the modelled float64
MaxSteps == 13     \* largest step count passed to the interpolator
MaxObjects == 2    \* staging objects, sequence builders and musical contexts ever allocated
MaxPattern == 2    \* Pattern elements kept over all sessions
MaxPoints == 2     \* control points a curve stage may hold before a further append
MaxGenerated == 13  \* Pattern elements kept when the sequence generator is studied alone
MaxEventBuilders == 1  \* EventBuilder objects ever allocated
MaxCurves == 1     \* curve stages opened when the curve stage is studied alone
MaxCalls == 2      \* calls recorded for a curve stage before Points may be called

\* ------------------------------------------------------------------------
\* float64 arithmetic
\* ------------------------------------------------------------------------
Abs(i) == IF i < 0 THEN -i ELSE i
Sgn(i) == IF i < 0 THEN -1 ELSE 1
MaxI(a, b) == IF a > b THEN a ELSE b
MinI(a, b) == IF a < b THEN a ELSE b

\* A float is m * 2^e, kept canonical (m odd, or m = 0 and e = 0) so that
\* numeric equality is record equality.
RECURSIVE Norm(_, _)
Norm(m, e) ==
    IF m = 0 THEN [m |-> 0, e |-> 0]
    ELSE IF m % 2 = 0 THEN Norm(m \div 2, e + 1)
    ELSE [m |-> m, e |-> e]

\* Number of binary digits of n >= 0.
RECURSIVE BitLen(_)
BitLen(n) == IF n = 0 THEN 0 ELSE 1 + BitLen(n \div 2)

\* The float nearest to (n / d) * 2^x, ties to even (d > 0): scale n/d by a
\* power of two into [2^(MantBits-1), 2^MantBits), round to an integer.
RoundQ(n, d, x) ==
    IF n = 0 THEN [m |-> 0, e |-> 0]
    ELSE
      LET a == Abs(n)
          A(e) == a * 2^MaxI(0, -e)
          D(e) == d * 2^MaxI(0, e)
          Fits(e) == A(e) >= 2^(MantBits - 1) * D(e)
          hi == BitLen(a) - BitLen(d) - MantBits + 1
          ex == IF Fits(hi) THEN hi ELSE hi - 1
          q == A(ex) \div D(ex)
          r == A(ex) % D(ex)
          up == (2 * r > D(ex)) \/ (2 * r = D(ex) /\ q % 2 = 1)
      IN  Norm(Sgn(n) * (q + (IF up THEN 1 ELSE 0)), ex + x)

FromInt(i) == RoundQ(i, 1, 0)
FromRatio(n, d) == RoundQ(n, d, 0)

FAdd(x, y) ==
    LET em == MinI(x.e, y.e)
    IN  RoundQ(x.m * 2^(x.e - em) + y.m * 2^(y.e - em), 1, em)
FNeg(x) == [m |-> -x.m, e |-> x.e]
FSub(x, y) == FAdd(x, FNeg(y))
FMul(x, y) == RoundQ(x.m * y.m, 1, x.e + y.e)
FDiv(x, y) == RoundQ(x.m * Sgn(y.m), Abs(y.m), x.e - y.e)
FLess(x, y) ==
    LET em == MinI(x.e, y.e)
    IN  x.m * 2^(x.e - em) < y.m * 2^(y.e - em)
FLeq(x, y) == x = y \/ FLess(x, y)

\* a + x*y: rounded twice, or once when the compiler fuses the two
\* operations into one multiply-add (the Go specification allows both).
FMulAdd(a, x, y, fused) ==
    IF fused
    THEN LET em == MinI(a.e, x.e + y.e)
         IN  RoundQ(a.m * 2^(a.e - em) + x.m * y.m * 2^(x.e + y.e - em), 1, em)
    ELSE FAdd(a, FMul(x, y))

\* math.Pow(x, y) for y a natural number, correctly rounded; Pow(x, 0) = 1.
RECURSIVE IntPow(_, _)
IntPow(b, k) == IF k = 0 THEN 1 ELSE b * IntPow(b, k - 1)
FPow(x, k) == RoundQ(IntPow(x.m, k), 1, x.e * k)

\* ------------------------------------------------------------------------
\* Curve interpolator
\* ------------------------------------------------------------------------
ControlPoint(t, v) == [Time |-> t, ParameterValue |-> v]

\* (changed: the step count is taken as given)
CoerceStepsNot(steps) == steps
CoerceSteps(steps) == IF steps < 1 THEN 1 ELSE steps

CreateCurve(startTime, endTime, startValue, endValue, steps0, fused) ==
    LET steps == CoerceSteps(steps0)
        timeDiff == FSub(endTime, startTime)
        valueDiff == FSub(endValue, startValue)
        timeStep == FDiv(timeDiff, FromInt(steps))
        valueStep == FDiv(valueDiff, FromInt(steps))
    IN  [k \in 1..steps |->
            ControlPoint(FMulAdd(startTime, timeStep, FromInt(k), fused),
                         FMulAdd(startValue, valueStep, FromInt(k), fused))]

LinearInterpolation(start, end, steps, fused) ==
    CreateCurve(start.Time, end.Time, start.ParameterValue, end.ParameterValue,
                steps, fused)

EaseInOut(start, end, steps0, fused) ==
    LET steps == CoerceSteps(steps0)
        timeDiff == FSub(end.Time, start.Time)
        valueDiff == FSub(end.ParameterValue, start.ParameterValue)
    IN  [k \in 1..steps |->
            LET t == FDiv(FromInt(k), FromInt(steps))
                smoothT == FMul(FMul(t, t),
                                FSub(FromInt(3), FMul(FromInt(2), t)))
            IN  ControlPoint(FMulAdd(start.Time, timeDiff, t, fused),
                             FMulAdd(start.ParameterValue, valueDiff, smoothT, fused))]

Exponential(start, end, steps0, exponent, fused) ==
    LET steps == CoerceSteps(steps0)
        timeDiff == FSub(end.Time, start.Time)
        valueDiff == FSub(end.ParameterValue, start.ParameterValue)
    IN  [k \in 1..steps |->
            LET t == FDiv(FromInt(k), FromInt(steps))
                expT == FPow(t, exponent)
            IN  ControlPoint(FMulAdd(start.Time, timeDiff, t, fused),
                             FMulAdd(start.ParameterValue, valueDiff, expT, fused))]

\* ------------------------------------------------------------------------
\* Frequency to sharpness
\* ------------------------------------------------------------------------
\* A float64 that is not a number: every comparison with it is false and
\* every operation on it yields it.
NaN == [m |-> 0, e |-> 1]
IsNaN(x) == x = NaN
Less(x, y) == ~IsNaN(x) /\ ~IsNaN(y) /\ FLess(x, y)
Minus(x, y) == IF IsNaN(x) \/ IsNaN(y) THEN NaN ELSE FSub(x, y)
Over(x, y) == IF IsNaN(x) \/ IsNaN(y) THEN NaN ELSE FDiv(x, y)

\* A frequency in Hz given as a whole number; the value is kept as written.
Hz(i) == Norm(i, 0)

\* math.Log on the frequencies of the band that are used: the natural
\* logarithm in units of 2^-20, rounded to float64.
LogScaled(x) ==
    CASE x = Hz(80) -> 4594888
      [] x = Hz(81) -> 4607914
      [] x = Hz(155) -> 5288415
      [] x = Hz(229) -> 5697670
      [] x = Hz(230) -> 5702239
Log(x) == IF IsNaN(x) THEN NaN ELSE RoundQ(LogScaled(x), 2^20, 0)

FreqOutOfBand(freq) == Less(freq, Hz(80)) \/ Less(Hz(230), freq)

\* The result is the pair (value, error); err = "" is the nil error.
FreqToSharpness(freq0, normalize) ==
    LET capped == IF normalize /\ Less(Hz(230), freq0) THEN Hz(230) ELSE freq0
        freq == IF normalize /\ Less(capped, Hz(80)) THEN Hz(80) ELSE capped
    IN  IF FreqOutOfBand(freq)
        THEN [value |-> Norm(0, 0), err |-> "incorrect frequency"]
        ELSE LET r == Over(Minus(Log(freq), Log(Hz(80))),
                           Minus(Log(Hz(230)), Log(Hz(80))))
             IN  IF Less(r, Norm(0, 0)) \/ Less(Norm(1, 0), r)
                 THEN [value |-> Norm(0, 0), err |-> "out of range"]
                 ELSE [value |-> r, err |-> ""]

\* ------------------------------------------------------------------------
\* Document model
\* ------------------------------------------------------------------------
EventTypeHapticTransient == "HapticTransient"
EventTypeHapticContinuous == "HapticContinuous"
EventTypeAudioCustom == "AudioCustom"
EventTypeAudioContinuous == "AudioContinuous"
ParamHapticIntensity == "HapticIntensity"
ParamAudioVolume == "AudioVolume"
ParamHapticSharpness == "HapticSharpness"
CurveHapticSharpness == "HapticSharpnessControl"

EventParameter(id, v) == [ParameterValue |-> v, ParameterID |-> id]

\* The time an element is placed at.
ElemTime(el) ==
    IF el.Event # <<>> THEN el.Event[1].Time
    ELSE IF el.ParameterCurve # <<>> THEN el.ParameterCurve[1].Time
    ELSE [m |-> 0, e |-> 0]

\* (changed: the Pattern is kept ordered by time)
AddEventByTime(p, event) ==
    LET el == [Event |-> event, ParameterCurve |-> <<>>]
        k == Cardinality({i \in 1..Len(p) : FLeq(ElemTime(p[i]), ElemTime(el))})
    IN  SubSeq(p, 1, k) \o << el >> \o SubSeq(p, k + 1, Len(p))

\* AHAP.AddEvent / AHAP.AddParameterCurve: the argument is a pointer
\* (<<>> is nil) and is stored as given.
AddEvent(p, event) == Append(p, [Event |-> event, ParameterCurve |-> <<>>])
AddParameterCurve(p, curve) == Append(p, [Event |-> <<>>, ParameterCurve |-> curve])

AddHapticTransient(p, time, intensity, sharpness) ==
    AddEvent(p, << [Time |-> time,
                    EventType |-> EventTypeHapticTransient,
                    EventParameters |->
                        << EventParameter(ParamHapticIntensity, intensity),
                           EventParameter(ParamHapticSharpness, sharpness) >>,
                    EventDuration |-> <<>>,
                    EventWaveformPath |-> <<>>] >>)

AddHapticContinuous(p, time, duration, intensity, sharpness) ==
    AddEvent(p, << [Time |-> time,
                    EventType |-> EventTypeHapticContinuous,
                    EventParameters |->
                        << EventParameter(ParamHapticIntensity, intensity),
                           EventParameter(ParamHapticSharpness, sharpness) >>,
                    EventDuration |-> <<duration>>,
                    EventWaveformPath |-> <<>>] >>)

AddAudioCustom(p, time, wavFilepath, volume) ==
    AddEvent(p, << [Time |-> time,
                    EventType |-> EventTypeAudioCustom,
                    EventParameters |->
                        << EventParameter(ParamAudioVolume, volume) >>,
                    EventDuration |-> <<>>,
                    EventWaveformPath |-> <<wavFilepath>>] >>)

\* (changed: the duration is left unset)
AddAudioContinuousUnset(p, time, duration, volume) ==
    AddEvent(p, << [Time |-> time,
                    EventType |-> EventTypeAudioContinuous,
                    EventParameters |->
                        << EventParameter(ParamAudioVolume, volume) >>,
                    EventDuration |-> <<>>,
                    EventWaveformPath |-> <<>>] >>)

AddAudioContinuous(p, time, duration, volume) ==
    AddEvent(p, << [Time |-> time,
                    EventType |-> EventTypeAudioContinuous,
                    EventParameters |->
                        << EventParameter(ParamAudioVolume, volume) >>,
                    EventDuration |-> <<duration>>,
                    EventWaveformPath |-> <<>>] >>)

AddCurve(p, parameterID, startTime, controlPoints) ==
    AddParameterCurve(p, << [Time |-> startTime,
                             ParameterID |-> parameterID,
                             ParameterCurveControlPoints |-> controlPoints] >>)

\* ------------------------------------------------------------------------
\* Document header and JSON encoding
\* ------------------------------------------------------------------------
\* A Go string that comes from the caller is a sequence of units: a valid
\* character ("a", "<", "uFFFD" for the replacement character U+FFFD) or a
\* byte that is no valid UTF-8 ("xFF").  The names the package defines
\* (event types, parameter ids) are single units.
New(description, createdBy) ==
    [Version |-> FromInt(1),
     Metadata |-> [Project |-> << "Basis" >>, Created |-> << "now" >>,
                   Description |-> description, CreatedBy |-> createdBy]]

Pow10(k) == IntPow(10, k)

\* The largest p with 10^p <= n / d, for n / d > 0.
AtLeastPow10(n, d, p) == n * Pow10(MaxI(-p, 0)) >= d * Pow10(MaxI(p, 0))
RECURSIVE Magnitude(_, _, _)
Magnitude(n, d, p) ==
    IF ~AtLeastPow10(n, d, p) THEN Magnitude(n, d, p - 1)
    ELSE IF AtLeastPow10(n, d, p + 1) THEN Magnitude(n, d, p + 1)
    ELSE p

\* strconv.ParseFloat on the literal digits * 10^exp10: the nearest float.
ParseFloat(lit) ==
    RoundQ(lit.digits * Pow10(MaxI(lit.exp10, 0)), Pow10(MaxI(-lit.exp10, 0)), 0)

\* The decimal of k significant digits nearest to x # 0 (ties to even).
Decimal(x, k) ==
    LET n == Abs(x.m) * 2^MaxI(x.e, 0)
        d == 2^MaxI(-x.e, 0)
        q == Magnitude(n, d, 0) - k + 1
        nn == n * Pow10(MaxI(-q, 0))
        dd == d * Pow10(MaxI(q, 0))
        lo == nn \div dd
        r == nn % dd
        up == (2 * r > dd) \/ (2 * r = dd /\ lo % 2 = 1)
    IN  [digits |-> Sgn(x.m) * (lo + (IF up THEN 1 ELSE 0)), exp10 |-> q]

\* strconv.AppendFloat(b, f, fmt, -1, 64): the shortest decimal that parses
\* back to x.
RECURSIVE Shortest(_, _)
Shortest(x, k) ==
    IF ParseFloat(Decimal(x, k)) = x THEN Decimal(x, k) ELSE Shortest(x, k + 1)
FormatFloat(x) == IF x.m = 0 THEN [digits |-> 0, exp10 |-> 0] ELSE Shortest(x, 1)

\* encoding/json writes a string coerced to valid UTF-8 (an invalid byte
\* becomes U+FFFD) and escapes <, > and &; the decoder undoes the escapes.
EncodeUnit(c) ==
    CASE c = "xFF" -> "uFFFD"
      [] c = "<" -> "\\u003c"
      [] OTHER -> c
DecodeUnit(c) == IF c = "\\u003c" THEN "<" ELSE c

\* JSON values.
JNumber(x) == [number |-> FormatFloat(x)]
JString(str) == [chars |-> [i \in 1..Len(str) |-> EncodeUnit(str[i])]]
JName(name) == JString(<< name >>)
JArray(items) == [items |-> items]
Member(key, val) == [key |-> key, val |-> val]
JObject(members) == [members |-> members]
\* A member of a nil pointer tagged omitempty is left out.
Optional(key, ptr, val) == IF ptr = <<>> THEN <<>> ELSE << Member(key, val) >>

MarshalParameter(ep) ==
    JObject(<< Member("ParameterID", JName(ep.ParameterID)),
               Member("ParameterValue", JNumber(ep.ParameterValue)) >>)

MarshalEvent(ev) ==
    JObject(<< Member("Time", JNumber(ev.Time)),
               Member("EventType", JName(ev.EventType)),
               Member("EventParameters",
                      JArray([i \in 1..Len(ev.EventParameters) |->
                                 MarshalParameter(ev.EventParameters[i])])) >>
            \o Optional("EventDuration", ev.EventDuration,
                        JNumber(ev.EventDuration[1]))
            \o Optional("EventWaveformPath", ev.EventWaveformPath,
                        JString(ev.EventWaveformPath[1])))

MarshalControlPoint(cp) ==
    JObject(<< Member("Time", JNumber(cp.Time)),
               Member("ParameterValue", JNumber(cp.ParameterValue)) >>)

MarshalCurve(crv) ==
    JObject(<< Member("ParameterID", JName(crv.ParameterID)),
               Member("Time", JNumber(crv.Time)),
               Member("ParameterCurveControlPoints",
                      JArray([i \in 1..Len(crv.ParameterCurveControlPoints) |->
                                 MarshalControlPoint(
                                     crv.ParameterCurveControlPoints[i])])) >>)

MarshalPattern(el) ==
    JObject(Optional("Event", el.Event, MarshalEvent(el.Event[1]))
            \o Optional("ParameterCurve", el.ParameterCurve,
                        MarshalCurve(el.ParameterCurve[1])))

MarshalMetadata(md) ==
    JObject(<< Member("Project", JString(md.Project)),
               Member("Created", JString(md.Created)),
               Member("Description", JString(md.Description)),
               Member("Created By", JString(md.CreatedBy)) >>)

MarshalAHAP(a) ==
    JObject(<< Member("Version", JNumber(a.Version)),
               Member("Metadata", MarshalMetadata(a.Metadata)),
               Member("Pattern",
                      JArray([i \in 1..Len(a.Pattern) |-> MarshalPattern(a.Pattern[i])])) >>)

\* The float64 values of a Document; json.Marshal fails on one that is NaN.
EventFloats(ev) ==
    {ev.Time} \cup {ev.EventParameters[i].ParameterValue : i \in 1..Len(ev.EventParameters)}
              \cup {ev.EventDuration[i] : i \in 1..Len(ev.EventDuration)}
CurveFloats(crv) ==
    {crv.Time}
    \cup UNION {{crv.ParameterCurveControlPoints[i].Time,
                 crv.ParameterCurveControlPoints[i].ParameterValue} :
                   i \in 1..Len(crv.ParameterCurveControlPoints)}
Floats(a) ==
    {a.Version}
    \cup UNION {EventFloats(a.Pattern[i].Event[1]) :
                   i \in {j \in 1..Len(a.Pattern) : a.Pattern[j].Event # <<>>}}
    \cup UNION {CurveFloats(a.Pattern[i].ParameterCurve[1]) :
                   i \in {j \in 1..Len(a.Pattern) : a.Pattern[j].ParameterCurve # <<>>}}

\* AHAP.ToJSON: (text, error).  Indenting adds white space only, which the
\* text keeps as a mark.
ToJSON(a, indent) ==
    IF NaN \in Floats(a)
    THEN [err |-> "unsupported value", indent |-> indent, text |-> <<>>]
    ELSE [err |-> "", indent |-> indent, text |-> << MarshalAHAP(a) >>]

\* json.Unmarshal into the structs of the package.
Has(obj, key) == \E i \in 1..Len(obj.members) : obj.members[i].key = key
Get(obj, key) ==
    obj.members[CHOOSE i \in 1..Len(obj.members) : obj.members[i].key = key].val
UnmarshalFloat(j) == ParseFloat(j.number)
UnmarshalString(j) == [i \in 1..Len(j.chars) |-> DecodeUnit(j.chars[i])]
UnmarshalName(j) == UnmarshalString(j)[1]

UnmarshalParameter(j) ==
    EventParameter(UnmarshalName(Get(j, "ParameterID")),
                   UnmarshalFloat(Get(j, "ParameterValue")))

UnmarshalEvent(j) ==
    [Time |-> UnmarshalFloat(Get(j, "Time")),
     EventType |-> UnmarshalName(Get(j, "EventType")),
     EventParameters |->
         [i \in 1..Len(Get(j, "EventParameters").items) |->
             UnmarshalParameter(Get(j, "EventParameters").items[i])],
     EventDuration |->
         IF Has(j, "EventDuration")
         THEN << UnmarshalFloat(Get(j, "EventDuration")) >> ELSE <<>>,
     EventWaveformPath |->
         IF Has(j, "EventWaveformPath")
         THEN << UnmarshalString(Get(j, "EventWaveformPath")) >> ELSE <<>>]

UnmarshalControlPoint(j) ==
    ControlPoint(UnmarshalFloat(Get(j, "Time")),
                 UnmarshalFloat(Get(j, "ParameterValue")))

UnmarshalCurve(j) ==
    [Time |-> UnmarshalFloat(Get(j, "Time")),
     ParameterID |-> UnmarshalName(Get(j, "ParameterID")),
     ParameterCurveControlPoints |->
         [i \in 1..Len(Get(j, "ParameterCurveControlPoints").items) |->
             UnmarshalControlPoint(Get(j, "ParameterCurveControlPoints").items[i])]]

UnmarshalPattern(j) ==
    [Event |-> IF Has(j, "Event") THEN << UnmarshalEvent(Get(j, "Event")) >> ELSE <<>>,
     ParameterCurve |->
         IF Has(j, "ParameterCurve")
         THEN << UnmarshalCurve(Get(j, "ParameterCurve")) >> ELSE <<>>]

UnmarshalMetadata(j) ==
    [Project |-> UnmarshalString(Get(j, "Project")),
     Created |-> UnmarshalString(Get(j, "Created")),
     Description |-> UnmarshalString(Get(j, "Description")),
     CreatedBy |-> UnmarshalString(Get(j, "Created By"))]

Unmarshal(j) ==
    [Version |-> UnmarshalFloat(Get(j, "Version")),
     Metadata |-> UnmarshalMetadata(Get(j, "Metadata")),
     Pattern |-> [i \in 1..Len(Get(j, "Pattern").items) |->
                     UnmarshalPattern(Get(j, "Pattern").items[i])]]

\* ------------------------------------------------------------------------
\* Musical time converter
\* ------------------------------------------------------------------------
NewMusicalContext(bpm, numerator, denominator) ==
    [BPM |-> bpm, Numerator |-> numerator, Denominator |-> denominator]

\* (changed: the beat is multiplied by 60 first, the product divided by the tempo)
BeatToSecondsProduct(m, beat) == FDiv(FMul(beat, FromInt(60)), m.BPM)
BeatToSeconds(m, beat) == FMul(beat, FDiv(FromInt(60), m.BPM))
\* (changed: a bar is taken to last one beat)
BarToSecondsOfBeat(m, bar) == FMul(bar, FDiv(FromInt(60), m.BPM))
BarToSeconds(m, bar) ==
    FMul(FMul(bar, FromInt(m.Numerator)), FDiv(FromInt(60), m.BPM))
BeatsPerBar(m) == m.Numerator
BeatDuration(m) == BeatToSeconds(m, FromInt(1))
BarDuration(m) == BarToSeconds(m, FromInt(1))
SecondsToBeats(m, seconds) == FDiv(seconds, FDiv(FromInt(60), m.BPM))
SecondsToBars(m, seconds) ==
    FDiv(seconds, FMul(FromInt(m.Numerator), FDiv(FromInt(60), m.BPM)))

\* ------------------------------------------------------------------------
\* State
\* ------------------------------------------------------------------------
VARIABLES
    pattern,      \* pattern[b]: b.ahap.Pattern of session b
    musical,      \* musical[b]: b.musical, index into ctxHeap, 0 is nil
    ctxHeap,      \* the MusicalContext objects allocated so far
    stages,       \* the Transient/Continuous/CurveBuilder objects created so far
    anchors,      \* the CurveFromBuilder / CurveToBuilder objects created so far
    seqBuilders,  \* sessions a SequenceBuilder has been obtained for
    events,       \* the EventBuilder objects created so far
    calls,        \* history: the callback invocations made by Pattern, or the MIDI
                  \* events midi2ahap has processed with the time given to each, in order
    frame,        \* the EveryNthBeat call, or the loop of midi2ahap, in progress; <<>> when none
    ret,          \* the session returned by the last call that returns one, 0 if none
    commits,      \* history: commits[s] = Pattern elements appended for stage s
    call,         \* interpolator: the arguments of the call under study
    out,          \* interpolator: the law and the control points of the latest call
    fma           \* whether this build fuses x*y + z into one rounding

vars == << pattern, musical, ctxHeap, stages, anchors, seqBuilders, events, calls, frame,
           ret, commits, call, out, fma >>
builderVars == << pattern, musical, ctxHeap, stages, anchors, seqBuilders, events, calls,
                  frame, ret, commits >>
curveVars == << call, out, fma >>

\* Two Builder sessions, so that one can be told from the other.
Sessions == {1, 2}


F0 == FromInt(0)
F1 == FromInt(1)
F2 == FromInt(2)
Half == FromRatio(1, 2)

TimeVals == {F0, F1}
SetterVals == {F2}
Laws == {"linear", "easeInOut", "exponential"}

RECURSIVE SumLen(_, _)
SumLen(f, S) ==
    IF S = {} THEN 0
    ELSE LET x == CHOOSE y \in S : TRUE IN Len(f[x]) + SumLen(f, S \ {x})
\* The Pattern elements kept: MaxPattern, or MaxGenerated when the sequence
\* generator is studied on its own (call then holds its arguments).
Capacity ==
    IF call = <<>> \/ "description" \in DOMAIN call[1] THEN MaxPattern ELSE MaxGenerated
Room(k) == SumLen(pattern, Sessions) + k <= Capacity
Idle == frame = <<>>
Alloc(k) == Len(stages) + Len(ctxHeap) + Cardinality(seqBuilders) + k <= MaxObjects
\* CurveFromBuilder / CurveToBuilder objects ever allocated
MaxAnchors == MaxObjects

\* NewBuilder: an empty Document and no musical context.
NewBuilder == [musical |-> 0, ahap |-> <<>>]

InitBuilders ==
    /\ pattern = [b \in Sessions |-> NewBuilder.ahap]
    /\ musical = [b \in Sessions |-> NewBuilder.musical]
    /\ ctxHeap = <<>>
    /\ stages = <<>>
    /\ anchors = <<>>
    /\ seqBuilders = {}
    /\ events = <<>>
    /\ calls = <<>>
    /\ frame = <<>>
    /\ ret = 0
    /\ commits = <<>>

NoCurveCall ==
    /\ call = <<>>
    /\ out = <<>>

Init == InitBuilders /\ NoCurveCall /\ fma = FALSE

\* ------------------------------------------------------------------------
\* Builder: musical configuration
\* ------------------------------------------------------------------------
\* (changed: the given context is installed whether or not there is one)
EnsureContextAnew(b, fresh) ==
    /\ Alloc(1)
    /\ ctxHeap' = Append(ctxHeap, fresh)
    /\ musical' = [musical EXCEPT ![b] = Len(ctxHeap) + 1]

\* The context b.musical points at, allocating the given one when nil.
EnsureContext(b, fresh) ==
    IF musical[b] = 0
    THEN /\ Alloc(1)
         /\ ctxHeap' = Append(ctxHeap, fresh)
         /\ musical' = [musical EXCEPT ![b] = Len(ctxHeap) + 1]
    ELSE UNCHANGED << ctxHeap, musical >>

\* (changed: WithBPM always gives the session a new context in 4/4)
WithBPMAnew(b, bpm) ==
    /\ Idle
    /\ Alloc(IF musical[b] = 0 THEN 1 ELSE 0)
    /\ ctxHeap' = Append(ctxHeap, NewMusicalContext(bpm, 4, 4))
    /\ musical' = [musical EXCEPT ![b] = Len(ctxHeap) + 1]
    /\ ret' = b
    /\ UNCHANGED << pattern, stages, anchors, seqBuilders, events, calls, frame, commits >>
    /\ UNCHANGED curveVars

WithBPM(b, bpm) ==
    /\ Idle
    /\ IF musical[b] = 0
       THEN /\ Alloc(1)
            /\ ctxHeap' = Append(ctxHeap, NewMusicalContext(bpm, 4, 4))
            /\ musical' = [musical EXCEPT ![b] = Len(ctxHeap) + 1]
       ELSE /\ ctxHeap' = [ctxHeap EXCEPT ![musical[b]].BPM = bpm]
            /\ UNCHANGED musical
    /\ ret' = b
    /\ UNCHANGED << pattern, stages, anchors, seqBuilders, events, calls, frame, commits >>
    /\ UNCHANGED curveVars

WithTimeSignature(b, numerator, denominator) ==
    /\ Idle
    /\ IF musical[b] = 0
       THEN /\ Alloc(1)
            /\ ctxHeap' = Append(ctxHeap,
                                 NewMusicalContext(FromInt(120), numerator, denominator))
            /\ musical' = [musical EXCEPT ![b] = Len(ctxHeap) + 1]
       ELSE /\ ctxHeap' = [ctxHeap EXCEPT ![musical[b]].Numerator = numerator,
                                          ![musical[b]].Denominator = denominator]
            /\ UNCHANGED musical
    /\ ret' = b
    /\ UNCHANGED << pattern, stages, anchors, seqBuilders, events, calls, frame, commits >>
    /\ UNCHANGED curveVars

\* ------------------------------------------------------------------------
\* Builder: staging objects for events
\* ------------------------------------------------------------------------
\* Four fields are history, not fields of the code's structs: lastAt,
\* lastIntensity and lastSharpness are the argument of the latest At,
\* Intensity and Sharpness call (<<>> when there was none) and chain
\* is the sequence of calls that gave the stage control points, each with the
\* points it gave.
Stage(kind, b, time, duration, parameterID) ==
    [startTime |-> F0, time |-> time, intensity |-> Half, sharpness |-> Half,
     duration |-> duration, parameterID |-> parameterID,
     kind |-> kind, builder |-> b, points |-> <<>>,
     lastAt |-> <<>>, chain |-> <<>>,
     lastIntensity |-> <<>>, lastSharpness |-> <<>>]

NewStage(st) ==
    /\ Idle
    /\ Alloc(1)
    /\ stages' = Append(stages, st)
    /\ commits' = Append(commits, 0)
    /\ UNCHANGED << pattern, musical, ctxHeap, anchors, seqBuilders, events, calls, frame, ret >>
    /\ UNCHANGED curveVars

Transient(b, time) == NewStage(Stage("transient", b, time, F0, ""))
Continuous(b, time, duration) == NewStage(Stage("continuous", b, time, duration, ""))
Curve(b, parameterID) == NewStage(Stage("curve", b, F0, F0, parameterID))

SetField(s, st) ==
    /\ Idle
    /\ stages' = [stages EXCEPT ![s] = st]
    /\ UNCHANGED << pattern, musical, ctxHeap, anchors, seqBuilders, events, calls, frame,
                    ret, commits >>
    /\ UNCHANGED curveVars

\* (changed: the intensity is kept within [0, 1])
IntensityClamped(s, intensity) ==
    /\ stages[s].kind \in {"transient", "continuous"}
    /\ SetField(s, [stages[s] EXCEPT
                        !.intensity = IF FLess(F1, intensity) THEN F1
                                      ELSE IF FLess(intensity, F0) THEN F0
                                      ELSE intensity,
                        !.lastIntensity = << intensity >>])

\* TransientBuilder.Intensity / ContinuousBuilder.Intensity
Intensity(s, intensity) ==
    /\ stages[s].kind \in {"transient", "continuous"}
    /\ SetField(s, [stages[s] EXCEPT !.intensity = intensity,
                                     !.lastIntensity = << intensity >>])

\* TransientBuilder.Sharpness / ContinuousBuilder.Sharpness
Sharpness(s, sharpness) ==
    /\ stages[s].kind \in {"transient", "continuous"}
    /\ SetField(s, [stages[s] EXCEPT !.sharpness = sharpness,
                                     !.lastSharpness = << sharpness >>])

\* (changed: Add hands back another session than the staging object's)
CommitElsewhere(s, newPattern) ==
    /\ Idle
    /\ Room(1)
    /\ pattern' = [pattern EXCEPT ![stages[s].builder] = newPattern]
    /\ ret' = CHOOSE o \in Sessions : o # stages[s].builder
    /\ commits' = [commits EXCEPT ![s] = @ + 1]
    /\ UNCHANGED << musical, ctxHeap, stages, anchors, seqBuilders, events, calls, frame >>
    /\ UNCHANGED curveVars

\* What every Add does around the append: the element goes to the Document
\* of the staging object's session, and that session is returned.
Commit(s, newPattern) ==
    /\ Idle
    /\ Room(1)
    /\ pattern' = [pattern EXCEPT ![stages[s].builder] = newPattern]
    /\ ret' = stages[s].builder
    /\ commits' = [commits EXCEPT ![s] = @ + 1]
    /\ UNCHANGED << musical, ctxHeap, stages, anchors, seqBuilders, events, calls, frame >>
    /\ UNCHANGED curveVars

TransientBuilderAdd(s) ==
    /\ stages[s].kind = "transient"
    /\ Commit(s, AddHapticTransient(pattern[stages[s].builder], stages[s].time,
                                    stages[s].intensity, stages[s].sharpness))

ContinuousBuilderAdd(s) ==
    /\ stages[s].kind = "continuous"
    /\ Commit(s, AddHapticContinuous(pattern[stages[s].builder], stages[s].time,
                                     stages[s].duration, stages[s].intensity,
                                     stages[s].sharpness))

CurveBuilderAdd(s) ==
    /\ stages[s].kind = "curve"
    /\ Commit(s, AddCurve(pattern[stages[s].builder], stages[s].parameterID,
                          stages[s].startTime, stages[s].points))

\* The raw entry points of the Document, reached through Build().
RawAddEvent(b, event) ==
    /\ Idle
    /\ Room(1)
    /\ pattern' = [pattern EXCEPT ![b] = AddEvent(@, event)]
    /\ UNCHANGED << musical, ctxHeap, stages, anchors, seqBuilders, events, calls, frame,
                    ret, commits >>
    /\ UNCHANGED curveVars

RawAddParameterCurve(b, curve) ==
    /\ Idle
    /\ Room(1)
    /\ pattern' = [pattern EXCEPT ![b] = AddParameterCurve(@, curve)]
    /\ UNCHANGED << musical, ctxHeap, stages, anchors, seqBuilders, events, calls, frame,
                    ret, commits >>
    /\ UNCHANGED curveVars

\* ------------------------------------------------------------------------
\* Builder: curve stage
\* ------------------------------------------------------------------------
At(s, time) ==
    /\ stages[s].kind = "curve"
    /\ SetField(s, [stages[s] EXCEPT !.startTime = time, !.lastAt = << time >>])

Given(via, points) == [points |-> points, via |-> via]

AddPoint(s, time, value) ==
    /\ stages[s].kind = "curve"
    /\ Len(stages[s].points) < MaxPoints
    /\ SetField(s, [stages[s] EXCEPT
                        !.points = Append(@, ControlPoint(time, value)),
                        !.chain = Append(@, Given("AddPoint",
                                                  << ControlPoint(time, value) >>))])

\* Points stores the caller's slice in place of the points held so far.
Points(s, points) ==
    /\ stages[s].kind = "curve"
    /\ Len(stages[s].chain) < MaxCalls
    /\ SetField(s, [stages[s] EXCEPT !.points = points,
                                     !.chain = Append(@, Given("Points", points))])

NewAnchor(a) ==
    /\ Idle
    /\ Len(anchors) < MaxAnchors
    /\ anchors' = Append(anchors, a)
    /\ UNCHANGED << pattern, musical, ctxHeap, stages, seqBuilders, events, calls, frame,
                    ret, commits >>
    /\ UNCHANGED curveVars

CurveFromBuilder(s, time, value) ==
    [startTime |-> time, endTime |-> F0, startValue |-> value, endValue |-> F0,
     kind |-> "from", curveBuilder |-> s]

CurveToBuilder(cfb, endTime, endValue) ==
    [startTime |-> cfb.startTime, endTime |-> endTime,
     startValue |-> cfb.startValue, endValue |-> endValue,
     kind |-> "to", curveBuilder |-> cfb.curveBuilder]

From(s, time, value) ==
    /\ stages[s].kind = "curve"
    /\ NewAnchor(CurveFromBuilder(s, time, value))

To(a, endTime, endValue) ==
    /\ anchors[a].kind = "from"
    /\ NewAnchor(CurveToBuilder(anchors[a], endTime, endValue))

\* (changed: the interpolated points take the place of the points held)
AppendPointsInPlace(a, points) ==
    /\ anchors[a].kind = "to"
    /\ Len(stages[anchors[a].curveBuilder].points) < MaxPoints
    /\ SetField(anchors[a].curveBuilder,
                [stages[anchors[a].curveBuilder] EXCEPT
                    !.points = points,
                    !.chain = Append(@, Given("segment", points))])

\* The three selectors append the interpolated points to the curve stage.
AppendPoints(a, points) ==
    /\ anchors[a].kind = "to"
    /\ Len(stages[anchors[a].curveBuilder].points) < MaxPoints
    /\ SetField(anchors[a].curveBuilder,
                [stages[anchors[a].curveBuilder] EXCEPT
                    !.points = @ \o points,
                    !.chain = Append(@, Given("segment", points))])

StartOf(ctb) == ControlPoint(ctb.startTime, ctb.startValue)
EndOf(ctb) == ControlPoint(ctb.endTime, ctb.endValue)

Steps(a, steps) ==
    AppendPoints(a, CreateCurve(anchors[a].startTime, anchors[a].endTime,
                                anchors[a].startValue, anchors[a].endValue,
                                steps, fma))

EaseInOutSel(a, steps) ==
    AppendPoints(a, EaseInOut(StartOf(anchors[a]), EndOf(anchors[a]), steps, fma))

ExponentialSel(a, steps, exponent) ==
    AppendPoints(a, Exponential(StartOf(anchors[a]), EndOf(anchors[a]), steps,
                                exponent, fma))

\* ------------------------------------------------------------------------
\* Builder: musical positions
\* ------------------------------------------------------------------------
\* (changed: the session gets a copy of the context it is given)
WithMusicalContextCopied(b, m) ==
    /\ Idle
    /\ IF m = 0
       THEN musical' = [musical EXCEPT ![b] = 0] /\ UNCHANGED ctxHeap
       ELSE /\ ctxHeap' = Append(ctxHeap, ctxHeap[m])
            /\ musical' = [musical EXCEPT ![b] = Len(ctxHeap) + 1]
    /\ ret' = b
    /\ UNCHANGED << pattern, stages, anchors, seqBuilders, events, calls,
                    frame, commits >>
    /\ UNCHANGED curveVars

\* WithMusicalContext stores the pointer it is given: nil (0), or a context
\* that exists already (which the two sessions then share).
WithMusicalContext(b, m) ==
    /\ Idle
    /\ musical' = [musical EXCEPT ![b] = m]
    /\ ret' = b
    /\ UNCHANGED << pattern, ctxHeap, stages, anchors, seqBuilders, events, calls,
                    frame, commits >>
    /\ UNCHANGED curveVars

\* WithMusicalContext(NewMusicalContext(bpm, numerator, denominator))
WithNewMusicalContext(b, m) ==
    /\ Idle
    /\ Alloc(1)
    /\ ctxHeap' = Append(ctxHeap, m)
    /\ musical' = [musical EXCEPT ![b] = Len(ctxHeap) + 1]
    /\ ret' = b
    /\ UNCHANGED << pattern, stages, anchors, seqBuilders, events, calls,
                    frame, commits >>
    /\ UNCHANGED curveVars

\* Two fields are history, not fields of the code's struct: position is the
\* argument of the AtBeat or AtBar call that made the object and context the
\* value the session's context had at that call.
EventBuilder(b, time, position, context) ==
    [time |-> time, builder |-> b, position |-> position, context |-> context]

NewEventBuilder(eb) ==
    /\ Idle
    /\ Len(events) < MaxEventBuilders
    /\ events' = Append(events, eb)
    /\ UNCHANGED << pattern, stages, anchors, seqBuilders, calls, frame, ret, commits >>
    /\ UNCHANGED curveVars

AtBeat(b, beat) ==
    /\ EnsureContext(b, NewMusicalContext(FromInt(120), 4, 4))
    /\ NewEventBuilder(EventBuilder(b, BeatToSeconds(ctxHeap'[musical'[b]], beat),
                                     << "beat", beat >>, ctxHeap'[musical'[b]]))

AtBar(b, bar) ==
    /\ EnsureContext(b, NewMusicalContext(FromInt(120), 4, 4))
    /\ NewEventBuilder(EventBuilder(b, BarToSeconds(ctxHeap'[musical'[b]], bar),
                                     << "bar", bar >>, ctxHeap'[musical'[b]]))

\* The time of a position on a context.
PositionTime(m, position) ==
    IF position[1] = "beat" THEN BeatToSeconds(m, position[2])
    ELSE BarToSeconds(m, position[2])

\* (changed: the position is resolved on the session's context when the
\* stage is made)
EventBuilderTransientLate(e) ==
    NewStage(Stage("transient", events[e].builder,
                   PositionTime(IF musical[events[e].builder] = 0
                                THEN NewMusicalContext(FromInt(120), 4, 4)
                                ELSE ctxHeap[musical[events[e].builder]],
                                events[e].position),
                   F0, ""))

\* EventBuilder.Transient / EventBuilder.Continuous
EventBuilderTransient(e) ==
    NewStage(Stage("transient", events[e].builder, events[e].time, F0, ""))

EventBuilderContinuous(e, duration) ==
    NewStage(Stage("continuous", events[e].builder, events[e].time, duration, ""))

\* A continuous stage whose duration is taken from the session's context,
\* which is created when the session has none.
NewMusicalStage(e, duration) ==
    /\ Idle
    /\ Alloc((IF musical[events[e].builder] = 0 THEN 1 ELSE 0) + 1)
    /\ stages' = Append(stages, Stage("continuous", events[e].builder,
                                      events[e].time, duration, ""))
    /\ commits' = Append(commits, 0)
    /\ UNCHANGED << pattern, anchors, seqBuilders, events, calls, frame, ret >>
    /\ UNCHANGED curveVars

ContinuousBars(e, bars) ==
    /\ EnsureContext(events[e].builder, NewMusicalContext(FromInt(120), 4, 4))
    /\ NewMusicalStage(e, BarToSeconds(ctxHeap'[musical'[events[e].builder]], bars))

ContinuousBeats(e, beats) ==
    /\ EnsureContext(events[e].builder, NewMusicalContext(FromInt(120), 4, 4))
    /\ NewMusicalStage(e, BeatToSeconds(ctxHeap'[musical'[events[e].builder]], beats))

\* ------------------------------------------------------------------------
\* Sequence generator
\* ------------------------------------------------------------------------
Sequence(b) ==
    /\ Idle
    /\ Alloc((IF musical[b] = 0 THEN 1 ELSE 0) + (IF b \in seqBuilders THEN 0 ELSE 1))
    /\ EnsureContext(b, NewMusicalContext(FromInt(120), 4, 4))
    /\ seqBuilders' = seqBuilders \cup {b}
    /\ UNCHANGED << pattern, stages, anchors, events, calls, frame, ret, commits >>
    /\ UNCHANGED curveVars

\* (changed: only the first beat offset of a bar gets a transient)
OnBeatsOfBarFirst(p, m, beats, k, barTime, intensity, sharpness) ==
    IF k > Len(beats) THEN p
    ELSE AddHapticTransient(p, FAdd(barTime, BeatToSeconds(m, beats[k])),
                            intensity, sharpness)

\* The inner loop of TransientsOnBeats: one transient per beat offset.
RECURSIVE OnBeatsOfBar(_, _, _, _, _, _, _)
OnBeatsOfBar(p, m, beats, k, barTime, intensity, sharpness) ==
    IF k > Len(beats) THEN p
    ELSE OnBeatsOfBar(
            AddHapticTransient(p, FAdd(barTime, BeatToSeconds(m, beats[k])),
                               intensity, sharpness),
            m, beats, k + 1, barTime, intensity, sharpness)

\* The outer loop of TransientsOnBeats, from bar to endBar.
RECURSIVE OnBars(_, _, _, _, _, _, _)
OnBars(p, m, beats, bar, endBar, intensity, sharpness) ==
    IF bar > endBar THEN p
    ELSE OnBars(OnBeatsOfBar(p, m, beats, 1, BarToSeconds(m, FromInt(bar)),
                             intensity, sharpness),
                m, beats, bar + 1, endBar, intensity, sharpness)

BarCount(startBar, endBar) == MaxI(0, endBar - startBar + 1)

TransientsOnBeats(b, beats, startBar, endBar, intensity, sharpness) ==
    /\ Idle
    /\ b \in seqBuilders
    /\ musical[b] # 0
    /\ Room(Len(beats) * BarCount(startBar, endBar))
    /\ pattern' = [pattern EXCEPT ![b] =
                      OnBars(@, ctxHeap[musical[b]], beats, startBar, endBar,
                             intensity, sharpness)]
    /\ ret' = b
    /\ UNCHANGED << musical, ctxHeap, stages, anchors, seqBuilders, events, calls, frame, commits >>
    /\ UNCHANGED curveVars

TransientsOnBeatsInBar(b, beats, bar, intensity, sharpness) ==
    TransientsOnBeats(b, beats, bar, bar, intensity, sharpness)

EveryBeat(b, startBar, endBar, intensity, sharpness) ==
    /\ b \in seqBuilders
    /\ musical[b] # 0
    /\ BeatsPerBar(ctxHeap[musical[b]]) >= 0
    /\ TransientsOnBeats(b, [i \in 1..BeatsPerBar(ctxHeap[musical[b]]) |-> FromInt(i - 1)],
                         startBar, endBar, intensity, sharpness)

\* Go integer division truncates toward zero; % takes the dividend's sign.
GoDiv(x, y) == Sgn(x) * Sgn(y) * (Abs(x) \div Abs(y))
\* (changed: the remainder is taken to be zero)
GoModZero(x, y) == 0
GoMod(x, y) == x - y * GoDiv(x, y)

\* The contexts a session can hold, and the bars a caller names.
BPMVals == {FromInt(100)}
SignatureVals == {<<2, 4>>}
BarVals == 0..1
ClockBars == 0..2
Contexts ==
    { NewMusicalContext(bpm, sig[1], sig[2]) :
        bpm \in BPMVals \cup {FromInt(120)}, sig \in SignatureVals \cup {<<4, 4>>} }

\* BarToSeconds(actualBar) + BeatToSeconds(beatInBar) of the loop body,
\* tabulated over the contexts and the beats of the bars.
BeatClock ==
    [m \in Contexts |->
       [actualBar \in ClockBars |->
          [beatInBar \in 0..(BeatsPerBar(m) - 1) |->
             FAdd(BarToSeconds(m, FromInt(actualBar)),
                  BeatToSeconds(m, FromInt(beatInBar)))]]]

\* EveryNthBeat runs as a loop: the call sets up the locals, then the loop
\* condition ("test") and the loop body ("body") alternate until the
\* condition fails and the session is returned.
EveryNthBeat(b, n, startBar, endBar, intensity, sharpness) ==
    /\ Idle
    /\ b \in seqBuilders
    /\ musical[b] # 0
    /\ LET beatsPerBar == BeatsPerBar(ctxHeap[musical[b]])
           totalBeats == (endBar - startBar + 1) * beatsPerBar
       IN  /\ n >= 1 => Room((totalBeats + n - 1) \div n)
           /\ frame' = << [i |-> 0, n |-> n, intensity |-> intensity,
                           sharpness |-> sharpness, endBar |-> endBar,
                           startBar |-> startBar, beatsPerBar |-> beatsPerBar,
                           totalBeats |-> totalBeats, sb |-> b, pc |-> "test"] >>
    /\ UNCHANGED << pattern, musical, ctxHeap, stages, anchors, seqBuilders, events, calls,
                    ret, commits >>
    /\ UNCHANGED curveVars

NthTest ==
    /\ frame # <<>>
    /\ frame[1].pc = "test"
    /\ IF frame[1].i < frame[1].totalBeats
       THEN /\ frame' = << [frame[1] EXCEPT !.pc = "body"] >>
            /\ UNCHANGED ret
       ELSE /\ frame' = <<>>
            /\ ret' = frame[1].sb
    /\ UNCHANGED << pattern, musical, ctxHeap, stages, anchors, seqBuilders, events, calls, commits >>
    /\ UNCHANGED curveVars

\* The model keeps at most MaxPattern elements: a loop that runs away keeps
\* iterating once that many are stored.
AppendKept(p, time, intensity, sharpness) ==
    IF Room(1) THEN AddHapticTransient(p, time, intensity, sharpness) ELSE p

NthBody ==
    /\ frame # <<>>
    /\ frame[1].pc = "body"
    /\ LET f == frame[1]
           m == ctxHeap[musical[f.sb]]
           bar == GoDiv(f.i, f.beatsPerBar)
           beatInBar == GoMod(f.i, f.beatsPerBar)
           actualBar == f.startBar + bar
       IN  /\ pattern' =
                 IF actualBar <= f.endBar
                 THEN [pattern EXCEPT ![f.sb] =
                          AppendKept(@, BeatClock[m][actualBar][beatInBar],
                                     f.intensity, f.sharpness)]
                 ELSE pattern
           /\ frame' = << [f EXCEPT !.i = f.i + f.n, !.pc = "test"] >>
    /\ UNCHANGED << musical, ctxHeap, stages, anchors, seqBuilders, events, calls, ret, commits >>
    /\ UNCHANGED curveVars

\* Pattern runs as a loop: the call sets up the loop variable, then the loop
\* condition ("ptest") and the call of fn ("pcall") alternate.
Pattern(b, startBar, endBar, fn) ==
    /\ Idle
    /\ b \in seqBuilders
    /\ frame' = << [bar |-> startBar, endBar |-> endBar, sb |-> b,
                    pc |-> "ptest", fn |-> fn] >>
    /\ UNCHANGED << pattern, musical, ctxHeap, stages, anchors, seqBuilders, events,
                    calls, ret, commits >>
    /\ UNCHANGED curveVars

\* (changed: the loop stops one bar early)
PatternLoopsShort(bar, endBar) == bar < endBar
PatternLoops(bar, endBar) == bar <= endBar

PatternTest ==
    /\ frame # <<>>
    /\ frame[1].pc = "ptest"
    /\ IF PatternLoops(frame[1].bar, frame[1].endBar)
       THEN /\ frame' = << [frame[1] EXCEPT !.pc = "pcall"] >>
            /\ UNCHANGED ret
       ELSE /\ frame' = <<>>
            /\ ret' = frame[1].sb
    /\ UNCHANGED << pattern, musical, ctxHeap, stages, anchors, seqBuilders, events,
                    calls, commits >>
    /\ UNCHANGED curveVars

\* What the caller's function does with the session and the bar it is
\* given: nothing, or a transient on the first beat of the bar
\* (b.AtBeat(bar * 4).Transient().Intensity(1).Sharpness(1).Add()).
Callback(fn, p, m, bar) ==
    IF fn = "strong"
    THEN AddHapticTransient(p, BeatToSeconds(m, FromInt(bar * 4)),
                            FromInt(1), FromInt(1))
    ELSE p

\* fn(sb.builder, bar)
PatternCall ==
    /\ frame # <<>>
    /\ frame[1].pc = "pcall"
    /\ calls' = Append(calls, [b |-> frame[1].sb, bar |-> frame[1].bar])
    /\ pattern' = [pattern EXCEPT ![frame[1].sb] =
                      Callback(frame[1].fn, @, ctxHeap[musical[frame[1].sb]],
                               frame[1].bar)]
    /\ frame' = << [frame[1] EXCEPT !.bar = @ + 1, !.pc = "ptest"] >>
    /\ UNCHANGED << musical, ctxHeap, stages, anchors, seqBuilders, events, ret, commits >>
    /\ UNCHANGED curveVars

\* ------------------------------------------------------------------------
\* The construction engine as one state machine
\* ------------------------------------------------------------------------
DurationVals == {F1}
BeatSets == {<<>>, <<F1, F0>>}
NthVals == 0..2
RawEvents == {<<>>}
RawCurves == {<<>>, << [Time |-> F0, ParameterID |-> CurveHapticSharpness,
                       ParameterCurveControlPoints |-> <<>>] >>}

StageIds == 1..Len(stages)
AnchorIds == 1..Len(anchors)

Configure ==
    \E b \in Sessions :
        \/ \E bpm \in BPMVals : WithBPM(b, bpm)
        \/ \E sig \in SignatureVals : WithTimeSignature(b, sig[1], sig[2])

Factories ==
    \E b \in Sessions :
        \/ \E t \in TimeVals : Transient(b, t)
        \/ \E t \in TimeVals, d \in DurationVals : Continuous(b, t, d)
        \/ Curve(b, CurveHapticSharpness)

Setters ==
    \E s \in StageIds :
        \/ \E v \in SetterVals : Intensity(s, v)
        \/ \E v \in SetterVals : Sharpness(s, v)
        \/ At(s, F1)
        \/ AddPoint(s, F0, F1)

Commits ==
    \E s \in StageIds :
        \/ TransientBuilderAdd(s)
        \/ ContinuousBuilderAdd(s)
        \/ CurveBuilderAdd(s)

RawAdds ==
    \E b \in Sessions :
        \/ \E e \in RawEvents : RawAddEvent(b, e)
        \/ \E c \in RawCurves : RawAddParameterCurve(b, c)

SequenceOps ==
    \E b \in Sessions :
        \/ Sequence(b)
        \/ \E beats \in BeatSets, sBar \in BarVals, eBar \in BarVals :
              TransientsOnBeats(b, beats, sBar, eBar, F1, F1)
        \/ \E beats \in BeatSets, bar \in BarVals :
              TransientsOnBeatsInBar(b, beats, bar, F1, F1)
        \/ \E sBar \in BarVals, eBar \in BarVals : EveryBeat(b, sBar, eBar, F1, F1)
        \/ \E n \in NthVals, sBar \in BarVals, eBar \in BarVals :
              EveryNthBeat(b, n, sBar, eBar, F1, F1)

Next ==
    \/ Configure
    \/ Factories
    \/ Setters
    \/ Commits
    \/ RawAdds
    \/ SequenceOps
    \/ NthTest
    \/ NthBody

Spec == Init /\ [][Next]_vars

\* ------------------------------------------------------------------------
\* The sequence generator alone: a caller that configures the session and
\* expands bar/beat ranges.  EveryNthBeat is a synchronous call: once
\* entered, its loop keeps running.
\* ------------------------------------------------------------------------
SeqNext ==
    \/ Configure
    \/ SequenceOps
    \/ NthTest
    \/ NthBody

SeqSpec == Init /\ [][SeqNext]_vars /\ WF_vars(NthTest) /\ WF_vars(NthBody)

\* ------------------------------------------------------------------------
\* The sequence generator on its own: one call of one of its functions on a
\* session that has a context and may hold an element already.
\* ------------------------------------------------------------------------
GenBars == 0..2
GenBeatSets == {<<>>, <<F1, F0>>, <<Half>>}
GenNth == 1..3
GenBases == {<<>>, AddHapticContinuous(<<>>, F1, F1, Half, Half)}
PatternFns == {"none", "strong"}

GenCall(op, sb, m, base, startBar, endBar, beats, n, fn) ==
    << [m |-> m, n |-> n, beats |-> beats, endBar |-> endBar,
        startBar |-> startBar, sb |-> sb, fn |-> fn, op |-> op, base |-> base] >>

GenCalls ==
    UNION {
        { GenCall("EveryBeat", sb, m, base, s, e, <<>>, 1, "none"),
          GenCall("TransientsOnBeatsInBar", sb, m, base, s, s, beats, 1, "none"),
          GenCall("TransientsOnBeats", sb, m, base, s, e, beats, 1, "none"),
          GenCall("EveryNthBeat", sb, m, base, s, e, <<>>, n, "none"),
          GenCall("Pattern", sb, m, base, s, e, <<>>, 1, fn) } :
        sb \in Sessions, m \in Contexts, base \in GenBases, s \in GenBars,
        e \in GenBars, beats \in GenBeatSets, n \in GenNth, fn \in PatternFns }

\* Sequence() has been called on session call[1].sb.
GenInit ==
    /\ call \in GenCalls
    /\ pattern = [b \in Sessions |-> IF b = call[1].sb THEN call[1].base ELSE <<>>]
    /\ musical = [b \in Sessions |-> IF b = call[1].sb THEN 1 ELSE 0]
    /\ ctxHeap = << call[1].m >>
    /\ stages = <<>>
    /\ anchors = <<>>
    /\ seqBuilders = {call[1].sb}
    /\ events = <<>>
    /\ calls = <<>>
    /\ frame = <<>>
    /\ ret = 0
    /\ commits = <<>>
    /\ out = <<>>
    /\ fma = FALSE

\* The one call is still to be made.
Pending(op) == call[1].op = op /\ ret = 0

CallTransientsOnBeats ==
    /\ Pending("TransientsOnBeats")
    /\ TransientsOnBeats(call[1].sb, call[1].beats, call[1].startBar,
                         call[1].endBar, F1, Half)

CallTransientsOnBeatsInBar ==
    /\ Pending("TransientsOnBeatsInBar")
    /\ TransientsOnBeatsInBar(call[1].sb, call[1].beats, call[1].startBar, F1, Half)

CallEveryBeat ==
    /\ Pending("EveryBeat")
    /\ EveryBeat(call[1].sb, call[1].startBar, call[1].endBar, F1, Half)

CallEveryNthBeat ==
    /\ Pending("EveryNthBeat")
    /\ EveryNthBeat(call[1].sb, call[1].n, call[1].startBar, call[1].endBar, F1, Half)

CallPattern ==
    /\ Pending("Pattern")
    /\ Pattern(call[1].sb, call[1].startBar, call[1].endBar, call[1].fn)

GenNext ==
    \/ CallTransientsOnBeats
    \/ CallTransientsOnBeatsInBar
    \/ CallEveryBeat
    \/ CallEveryNthBeat
    \/ CallPattern
    \/ NthTest
    \/ NthBody
    \/ PatternTest
    \/ PatternCall

GenSpec == GenInit /\ [][GenNext]_vars

\* ------------------------------------------------------------------------
\* The sequence generator on every context: the calls above, and EveryBeat
\* and EveryNthBeat on a session whose signature was given a negative
\* numerator (NewMusicalContext and WithTimeSignature take any int).
\* ------------------------------------------------------------------------
OddContexts == {NewMusicalContext(FromInt(120), -1, 4)}

EquivCalls ==
    GenCalls \cup
    UNION {
        { GenCall("EveryBeat", sb, m, base, s, e, <<>>, 1, "none"),
          GenCall("EveryNthBeat", sb, m, base, s, e, <<>>, 1, "none") } :
        sb \in Sessions, m \in OddContexts, base \in GenBases, s \in GenBars,
        e \in GenBars }

EquivInit ==
    /\ call \in EquivCalls
    /\ pattern = [b \in Sessions |-> IF b = call[1].sb THEN call[1].base ELSE <<>>]
    /\ musical = [b \in Sessions |-> IF b = call[1].sb THEN 1 ELSE 0]
    /\ ctxHeap = << call[1].m >>
    /\ stages = <<>>
    /\ anchors = <<>>
    /\ seqBuilders = {call[1].sb}
    /\ events = <<>>
    /\ calls = <<>>
    /\ frame = <<>>
    /\ ret = 0
    /\ commits = <<>>
    /\ out = <<>>
    /\ fma = FALSE

EquivSpec == EquivInit /\ [][GenNext]_vars

\* ------------------------------------------------------------------------
\* The builder with musical positions: a caller that configures the musical
\* context, takes positions in beats and bars, stages events on
\* them and commits the stages.
\* ------------------------------------------------------------------------
BeatVals == {F1, FromInt(3), FromInt(4)}
BarPositions == {F1, F2}
BarLengths == {F2}
BeatLengths == {FromInt(3)}
NewContexts == {NewMusicalContext(FromInt(100), 2, 4)}
EventIds == 1..Len(events)

MusicalConfigure ==
    \E b \in Sessions :
        \/ \E m \in 0..Len(ctxHeap) : WithMusicalContext(b, m)
        \/ \E m \in NewContexts : WithNewMusicalContext(b, m)

Positions ==
    \E b \in Sessions :
        \/ \E beat \in BeatVals : AtBeat(b, beat)
        \/ \E bar \in BarPositions : AtBar(b, bar)

EventStages ==
    \E e \in EventIds :
        \/ EventBuilderTransient(e)
        \/ \E d \in DurationVals : EventBuilderContinuous(e, d)
        \/ \E bars \in BarLengths : ContinuousBars(e, bars)
        \/ \E beats \in BeatLengths : ContinuousBeats(e, beats)

MusicalNext ==
    \/ Configure
    \/ MusicalConfigure
    \/ Positions
    \/ EventStages
    \/ Factories
    \/ \E b \in Sessions : Sequence(b)
    \/ Commits

MusicalSpec == Init /\ [][MusicalNext]_vars

\* ------------------------------------------------------------------------
\* The configuration of the sessions alone: a caller that sets tempos and
\* signatures, hands contexts from one session to the other, and stages and
\* commits plain events.
\* ------------------------------------------------------------------------
ConfigBPMs == {FromInt(100), FromInt(90)}
ConfigSignatures == {<<2, 4>>, <<3, 4>>}

ConfigCalls ==
    \E b \in Sessions :
        \/ \E bpm \in ConfigBPMs : WithBPM(b, bpm)
        \/ \E sig \in ConfigSignatures : WithTimeSignature(b, sig[1], sig[2])
        \/ \E m \in 0..Len(ctxHeap) : WithMusicalContext(b, m)

ConfigNext ==
    \/ ConfigCalls
    \/ Factories
    \/ Commits

ConfigSpec == Init /\ [][ConfigNext]_vars

\* ------------------------------------------------------------------------
\* The Document alone: a caller that fills Documents through the Add
\* functions and the builder commits, then encodes one and decodes the text.
\* ------------------------------------------------------------------------
Texts == {<< "a", "<" >>, << "xFF" >>, <<>>}
Descriptions == {<< "a", "<" >>, << "xFF" >>}
DocTimes == {FromRatio(1, 3), NaN}
DocDurations == {F0, F1}
DocLevels == {FromRatio(4, 5)}
DocPoints == {<< ControlPoint(F1, FromRatio(1, 3)), ControlPoint(F2, F0) >>}
\* The session whose Document the caller fills directly.
Direct == {1}

DocInit ==
    /\ InitBuilders
    /\ call \in { << [description |-> d, createdBy |-> << "a" >>] >> : d \in Descriptions }
    /\ out = <<>>
    /\ fma = FALSE

\* The Document of session b, as Build() returns it.
Document(b) ==
    [Version |-> New(call[1].description, call[1].createdBy).Version,
     Metadata |-> New(call[1].description, call[1].createdBy).Metadata,
     Pattern |-> pattern[b]]

DirectAdd(b, newPattern) ==
    /\ Idle
    /\ Room(1)
    /\ pattern' = [pattern EXCEPT ![b] = newPattern]
    /\ UNCHANGED << musical, ctxHeap, stages, anchors, seqBuilders, events, calls, frame,
                    ret, commits >>
    /\ UNCHANGED curveVars

DocAddHapticTransient ==
    \E b \in Direct, t \in DocTimes, v \in DocLevels :
        DirectAdd(b, AddHapticTransient(pattern[b], t, v, Half))
DocAddHapticContinuous ==
    \E b \in Direct, t \in DocTimes, d \in DocDurations, v \in DocLevels :
        DirectAdd(b, AddHapticContinuous(pattern[b], t, d, v, Half))
DocAddAudioCustom ==
    \E b \in Direct, t \in DocTimes, path \in Texts, v \in DocLevels :
        DirectAdd(b, AddAudioCustom(pattern[b], t, path, v))
DocAddAudioContinuous ==
    \E b \in Direct, t \in DocTimes, d \in DocDurations, v \in DocLevels :
        DirectAdd(b, AddAudioContinuous(pattern[b], t, d, v))

DocAddCurve ==
    \E b \in Direct, points \in DocPoints :
        DirectAdd(b, AddCurve(pattern[b], CurveHapticSharpness, F1, points))
DocAddNil == \E b \in Direct : RawAddEvent(b, <<>>)
DocFactories == stages = <<>> /\ Factories

\* a.ToJSON(indent) / a.Export(file, indent): out holds the Document as it
\* was encoded, the result, and nothing decoded yet.
ApplyToJSON ==
    \E b \in Sessions, indent \in BOOLEAN :
        /\ Idle
        /\ out' = << [a |-> Document(b), json |-> ToJSON(Document(b), indent),
                      decoded |-> <<>>] >>
        /\ UNCHANGED << call, fma >>
        /\ UNCHANGED builderVars

\* json.Unmarshal of the text last produced.
ApplyUnmarshal ==
    /\ out # <<>>
    /\ out[1].json.err = ""
    /\ out[1].decoded = <<>>
    /\ out' = << [out[1] EXCEPT !.decoded = << Unmarshal(out[1].json.text[1]) >>] >>
    /\ UNCHANGED << call, fma >>
    /\ UNCHANGED builderVars

DocNext ==
    \/ out = <<>> /\ DocAddHapticTransient
    \/ out = <<>> /\ DocAddHapticContinuous
    \/ out = <<>> /\ DocAddAudioCustom
    \/ out = <<>> /\ DocAddAudioContinuous
    \/ out = <<>> /\ DocAddCurve
    \/ out = <<>> /\ DocAddNil
    \/ out = <<>> /\ DocFactories
    \/ out = <<>> /\ Commits
    \/ out = <<>> /\ ApplyToJSON
    \/ ApplyUnmarshal

DocSpec == DocInit /\ [][DocNext]_vars

\* ------------------------------------------------------------------------
\* The event stages alone: a caller that opens a stage, calls its setters
\* with values inside and outside [0, 1], and commits.
\* ------------------------------------------------------------------------
Levels == {F0, F2, FNeg(F1)}

SetterCalls ==
    \E s \in StageIds, v \in Levels :
        \/ Intensity(s, v)
        \/ Sharpness(s, v)

SetterNext ==
    \/ DocFactories
    \/ SetterCalls
    \/ Commits

SetterSpec == Init /\ [][SetterNext]_vars

\* ------------------------------------------------------------------------
\* The curve stage alone: a caller that opens curve stages, sets the start
\* time, gives points one at a time, all at once and by interpolated
\* segments, and commits.
\* ------------------------------------------------------------------------
StartTimes == {F1, F2}
StageSteps == {3}
FromTimes == {F1}
PointLists == {<< ControlPoint(F2, F0) >>}

StageInit == Init

CurveFactory ==
    \E b \in Sessions : Len(stages) < MaxCurves /\ Curve(b, CurveHapticSharpness)

CurveSetters ==
    \E s \in StageIds :
        \/ \E t \in StartTimes : At(s, t)
        \/ AddPoint(s, F0, F1)
        \/ \E points \in PointLists : Points(s, points)

CurveSegments ==
    \/ \E s \in StageIds, t \in FromTimes : From(s, t, F0)
    \/ \E a \in AnchorIds : To(a, F2, F1)
    \/ \E a \in AnchorIds, n \in StageSteps : Steps(a, n)
    \/ \E a \in AnchorIds, n \in StageSteps : EaseInOutSel(a, n)
    \/ \E a \in AnchorIds, n \in StageSteps : ExponentialSel(a, n, 3)

CurveCommits == \E s \in StageIds : CurveBuilderAdd(s)

StageNext ==
    \/ CurveFactory
    \/ CurveSetters
    \/ CurveSegments
    \/ CurveCommits

StageSpec == StageInit /\ [][StageNext]_vars

\* ------------------------------------------------------------------------
\* The curve interpolator: the three laws on one pair of anchors, called
\* directly and through Curve(p).From(t0, v0).To(t1, v1).<selector>(steps)
\* ------------------------------------------------------------------------
AnchorStartTimes == {F0, F1}
AnchorEndTimes == {F0, F1, F2}
AnchorStartValues == {F0}
AnchorEndValues == {F1}
StepCounts == (-1)..MaxSteps
Exponents == {0, 3}

\* A session on which Curve(p) has been called, and the anchors and step
\* count the caller is about to interpolate with.
CurveInit ==
    /\ pattern = [b \in Sessions |-> NewBuilder.ahap]
    /\ musical = [b \in Sessions |-> NewBuilder.musical]
    /\ ctxHeap = <<>>
    /\ stages = << Stage("curve", 1, F0, F0, CurveHapticSharpness) >>
    /\ commits = << 0 >>
    /\ anchors = <<>>
    /\ seqBuilders = {}
    /\ events = <<>>
    /\ calls = <<>>
    /\ frame = <<>>
    /\ ret = 0
    /\ call \in { << [steps |-> n, startTime |-> t0, endTime |-> t1,
                      startValue |-> v0, endValue |-> v1] >> :
                    t0 \in AnchorStartTimes, v0 \in AnchorStartValues,
                    t1 \in AnchorEndTimes, v1 \in AnchorEndValues,
                    n \in StepCounts }
    /\ out = <<>>
    /\ fma \in BOOLEAN

\* A direct call of one of the package-level functions; out holds the law
\* and the points of the latest call.
Apply(law, points) ==
    /\ out' = << [points |-> points, law |-> law] >>
    /\ UNCHANGED << call, fma >>
    /\ UNCHANGED builderVars

CallStart == ControlPoint(call[1].startTime, call[1].startValue)
CallEnd == ControlPoint(call[1].endTime, call[1].endValue)

ApplyLinear ==
    Apply("linear", LinearInterpolation(CallStart, CallEnd, call[1].steps, fma))
ApplyEaseInOut ==
    Apply("easeInOut", EaseInOut(CallStart, CallEnd, call[1].steps, fma))
ApplyExponential ==
    \E exponent \in Exponents :
        Apply("exponential",
              Exponential(CallStart, CallEnd, call[1].steps, exponent, fma))

CurveChain ==
    \/ \E s \in StageIds : From(s, call[1].startTime, call[1].startValue)
    \/ \E a \in AnchorIds : To(a, call[1].endTime, call[1].endValue)
    \/ \E a \in AnchorIds : Steps(a, call[1].steps)
    \/ \E a \in AnchorIds : EaseInOutSel(a, call[1].steps)
    \/ \E a \in AnchorIds, exponent \in Exponents :
          ExponentialSel(a, call[1].steps, exponent)

CurveNext ==
    \/ ApplyLinear
    \/ ApplyEaseInOut
    \/ ApplyExponential
    \/ CurveChain

CurveSpec == CurveInit /\ [][CurveNext]_vars

\* ------------------------------------------------------------------------
\* The converters called directly: the musical time converter on one
\* context, each function applied to the caller's value or to the result of
\* the call before (out lists the calls made), and FreqToSharpness.
\* ------------------------------------------------------------------------
MaxChain == 2      \* conversions applied one after the other
Tempos == {FromInt(90), FromInt(100), FromInt(120)}
Numerators == {3, 4}
Denominators == {4, 8}
Amounts == {FromInt(i) : i \in 1..7}
FreqVals == {Hz(0), Hz(50), Hz(79), Hz(80), Hz(81), Hz(155), Hz(229), Hz(230),
             Hz(231), Hz(300), NaN}

ConvInit ==
    /\ InitBuilders
    /\ call \in { << [m |-> NewMusicalContext(bpm, n, d), x |-> x,
                      kind |-> "musical"] >> :
                    bpm \in Tempos, n \in Numerators, d \in Denominators,
                    x \in Amounts }
               \cup
               { << [freq |-> f, normalize |-> z, kind |-> "freq"] >> :
                    f \in FreqVals, z \in BOOLEAN }
    /\ out = <<>>
    /\ fma = FALSE

\* The argument of the next call.
Input == IF out = <<>> THEN call[1].x ELSE out[Len(out)].value

Convert(fn, arg, value, err) ==
    /\ Len(out) < MaxChain
    /\ out' = Append(out, [value |-> value, err |-> err, fn |-> fn, arg |-> arg])
    /\ UNCHANGED << call, fma >>
    /\ UNCHANGED builderVars

Conversion(fn, m, x) ==
    CASE fn = "BeatToSeconds" -> BeatToSeconds(m, x)
      [] fn = "BarToSeconds" -> BarToSeconds(m, x)
      [] fn = "SecondsToBeats" -> SecondsToBeats(m, x)
      [] fn = "SecondsToBars" -> SecondsToBars(m, x)
      [] fn = "BeatDuration" -> BeatDuration(m)
      [] fn = "BarDuration" -> BarDuration(m)

ApplyConversion(fn) ==
    /\ call[1].kind = "musical"
    /\ Convert(fn, Input, Conversion(fn, call[1].m, Input), "")

ApplyBeatToSeconds == ApplyConversion("BeatToSeconds")
ApplyBarToSeconds == ApplyConversion("BarToSeconds")
ApplySecondsToBeats == ApplyConversion("SecondsToBeats")
ApplySecondsToBars == ApplyConversion("SecondsToBars")
ApplyBeatDuration == ApplyConversion("BeatDuration")
ApplyBarDuration == ApplyConversion("BarDuration")

ApplyFreqToSharpness ==
    /\ call[1].kind = "freq"
    /\ LET res == FreqToSharpness(call[1].freq, call[1].normalize)
       IN  Convert("FreqToSharpness", call[1].freq, res.value, res.err)

ConvNext ==
    \/ ApplyBeatToSeconds
    \/ ApplyBarToSeconds
    \/ ApplySecondsToBeats
    \/ ApplySecondsToBars
    \/ ApplyBeatDuration
    \/ ApplyBarDuration
    \/ ApplyFreqToSharpness

ConvSpec == ConvInit /\ [][ConvNext]_vars

\* ------------------------------------------------------------------------
\* midi2ahap: the conversion loop of main over the tracks of a MIDI file
\* ------------------------------------------------------------------------
\* A MIDI event: the ticks since the previous event of the track and a
\* message, which is a note start, a note end or a tempo change.
NoteStart(delta, channel, key, velocity) ==
    [key |-> key, bpm |-> 0, channel |-> channel, velocity |-> velocity,
     Delta |-> delta, message |-> "NoteStart"]
NoteEnd(delta, channel, key) ==
    [key |-> key, bpm |-> 0, channel |-> channel, velocity |-> 0,
     Delta |-> delta, message |-> "NoteEnd"]
MetaTempo(delta, bpm) ==
    [key |-> 0, bpm |-> bpm, channel |-> 0, velocity |-> 0,
     Delta |-> delta, message |-> "MetaTempo"]

\* 440 * 2^((note - 69) / 12) for the notes used, in Hz.
midiNoteToFreq(note) ==
    CASE note = 60 -> RoundQ(261626, 1000, 0)
      [] note = 36 -> RoundQ(65406, 1000, 0)
isDrumChannel(channel) == channel = 9
\* drumMappings: <<>> when the note has no entry, else (Intensity, Sharpness).
getDrumMapping(note) ==
    IF note \in {35, 36}
    THEN << [Intensity |-> FromInt(1), Sharpness |-> FromRatio(2, 10)] >>
    ELSE <<>>

MidiKeys == {36, 60}
NoNote == <<>>
NoteInfo(startTime, velocity) == << [startTime |-> startTime, velocity |-> velocity] >>

\* main up to the track loop: the builder is session 1; no note is open and
\* the tempo is 120 BPM.
MidiMain ==
    /\ frame = <<>>
    /\ frame' = << [pc |-> "track", track |-> 1, index |-> 1,
                    currentTime |-> F0, deltaAccum |-> 0,
                    microsecondsPerQuarterNote |-> FromInt(500000),
                    noteState |-> [k \in MidiKeys |-> NoNote]] >>
    /\ UNCHANGED << pattern, musical, ctxHeap, stages, anchors, seqBuilders, events,
                    calls, ret, commits >>
    /\ UNCHANGED curveVars

InMidi(pc) == frame # <<>> /\ "noteState" \in DOMAIN frame[1] /\ frame[1].pc = pc

\* for _, track := range smfData.Tracks { currentTime := 0.0; deltaAccum := 0
MidiTrack ==
    /\ InMidi("track")
    /\ frame' = << IF frame[1].track <= Len(call[1].tracks)
                   THEN [frame[1] EXCEPT !.index = 1, !.currentTime = F0,
                                         !.deltaAccum = 0, !.pc = "event"]
                   ELSE [frame[1] EXCEPT !.pc = "done"] >>
    /\ UNCHANGED << pattern, musical, ctxHeap, stages, anchors, seqBuilders, events,
                    calls, ret, commits >>
    /\ UNCHANGED curveVars

\* The end of a track's events.
MidiTrackEnd ==
    /\ InMidi("event")
    /\ frame[1].index > Len(call[1].tracks[frame[1].track])
    /\ frame' = << [frame[1] EXCEPT !.track = @ + 1, !.pc = "track"] >>
    /\ UNCHANGED << pattern, musical, ctxHeap, stages, anchors, seqBuilders, events,
                    calls, ret, commits >>
    /\ UNCHANGED curveVars

\* currentTime = float64(deltaAccum) / float64(ticksPerQuarterNote)
\*                   * (microsecondsPerQuarterNote / 1000000.0)
TickTime(deltaAccum, ticksPerQuarterNote, microsecondsPerQuarterNote) ==
    FMul(FDiv(FromInt(deltaAccum), FromInt(ticksPerQuarterNote)),
         FDiv(microsecondsPerQuarterNote, FromInt(1000000)))

\* noteState is indexed by the key alone.
NoteSlot(channel, key) == key

\* The Pattern after the event: a drum note gives a transient at once, the
\* end of an open melodic note of positive length a continuous event.
MidiEmit(p, drums, event, now, noteState) ==
    IF event.message = "NoteStart" /\ drums /\ isDrumChannel(event.channel)
    THEN IF getDrumMapping(event.key) # <<>>
         THEN AddHapticTransient(p, now,
                  FMul(getDrumMapping(event.key)[1].Intensity,
                       FDiv(FromInt(event.velocity), FromInt(127))),
                  getDrumMapping(event.key)[1].Sharpness)
         ELSE AddHapticTransient(p, now,
                  FDiv(FromInt(event.velocity), FromInt(127)), FromRatio(7, 10))
    ELSE IF /\ event.message = "NoteEnd"
            /\ ~(drums /\ isDrumChannel(event.channel))
            /\ noteState[NoteSlot(event.channel, event.key)] # NoNote
            /\ FLess(F0, FSub(now, noteState[NoteSlot(event.channel, event.key)][1].startTime))
    THEN LET info == noteState[NoteSlot(event.channel, event.key)][1]
             res == FreqToSharpness(midiNoteToFreq(event.key), TRUE)
         IN  AddHapticContinuous(p, info.startTime, FSub(now, info.startTime),
                 FDiv(FromInt(info.velocity), FromInt(127)),
                 IF res.err # "" THEN Half ELSE res.value)
    ELSE p

\* noteState after the event.
MidiNotes(drums, event, now, noteState) ==
    IF event.message = "NoteStart" /\ ~(drums /\ isDrumChannel(event.channel))
    THEN [noteState EXCEPT ![NoteSlot(event.channel, event.key)] =
              NoteInfo(now, event.velocity)]
    ELSE IF event.message = "NoteEnd" /\ ~(drums /\ isDrumChannel(event.channel))
    THEN [noteState EXCEPT ![NoteSlot(event.channel, event.key)] = NoNote]
    ELSE noteState

\* One pass of the body of the event loop.
MidiEvent ==
    /\ InMidi("event")
    /\ frame[1].index <= Len(call[1].tracks[frame[1].track])
    /\ LET event == call[1].tracks[frame[1].track][frame[1].index]
           deltaAccum == frame[1].deltaAccum + event.Delta
           now == TickTime(deltaAccum, call[1].ticksPerQuarterNote,
                           frame[1].microsecondsPerQuarterNote)
       IN  /\ frame' = << [frame[1] EXCEPT
                  !.index = @ + 1,
                  !.currentTime = now,
                  !.deltaAccum = deltaAccum,
                  !.microsecondsPerQuarterNote =
                      IF event.message = "MetaTempo"
                      THEN FDiv(FromInt(60000000), FromInt(event.bpm)) ELSE @,
                  !.noteState = MidiNotes(call[1].drums, event, now, @)] >>
           /\ pattern' = [pattern EXCEPT ![1] =
                  MidiEmit(@, call[1].drums, event, now, frame[1].noteState)]
           /\ calls' = Append(calls, [time |-> now, track |-> frame[1].track,
                                      index |-> frame[1].index])
    /\ UNCHANGED << musical, ctxHeap, stages, anchors, seqBuilders, events, ret, commits >>
    /\ UNCHANGED curveVars

\* The MIDI files converted: one track of TrackLen events, or that track and
\* a second one that ends the note once more.
TrackLen == 4
MidiEvents ==
    {NoteStart(0, 0, 60, 127), NoteStart(4, 1, 60, 64), NoteEnd(4, 0, 60),
     NoteEnd(4, 1, 60), MetaTempo(4, 240), NoteStart(0, 9, 36, 127)}
SecondTracks == {<<>>, << << NoteEnd(4, 0, 60) >> >>}
MidiFiles ==
    { [tracks |-> << first >> \o more, ticksPerQuarterNote |-> 4, drums |-> drums] :
        first \in [1..TrackLen -> MidiEvents], more \in SecondTracks,
        drums \in BOOLEAN }

MidiInit ==
    /\ InitBuilders
    /\ call \in { << f >> : f \in MidiFiles }
    /\ out = <<>>
    /\ fma = FALSE

MidiNext ==
    \/ MidiMain
    \/ MidiTrack
    \/ MidiTrackEnd
    \/ MidiEvent

MidiSpec == MidiInit /\ [][MidiNext]_vars

\* ------------------------------------------------------------------------
\* Properties
\* ------------------------------------------------------------------------
IsPrefix(p, q) == Len(p) <= Len(q) /\ SubSeq(q, 1, Len(p)) = p
IsEventAt(b, i) == pattern[b][i].Event # <<>>

\* C1: the Pattern lists the committed elements in commit order: every step
\* of every operation keeps the elements already there at their indices and
\* only adds behind them, whatever the elements' times.
C1_InsertionOrder ==
    [][\A b \in Sessions : IsPrefix(pattern[b], pattern'[b])]_vars

\* A Pattern whose second element is earlier in time than its first.
C1_Witness ==
    \E b \in Sessions :
        /\ Len(pattern[b]) >= 2
        /\ IsEventAt(b, 1) /\ IsEventAt(b, 2)
        /\ FLess(pattern[b][2].Event[1].Time, pattern[b][1].Event[1].Time)

\* C2: every Pattern element has exactly one of Event and ParameterCurve set.
C2_ExactlyOneVariant ==
    \A b \in Sessions : \A i \in 1..Len(pattern[b]) :
        (pattern[b][i].Event # <<>>) <=> (pattern[b][i].ParameterCurve = <<>>)

\* C3: at most one Pattern element is ever appended on behalf of a staging
\* object.
C3_CommittedOnce == \A s \in StageIds : commits[s] <= 1

\* C4: an Add lengthens the Pattern of the staging object's session by one
\* element, keeps the elements already there, every other session's Pattern and
\* the musical contexts, and returns that session; the session a staging
\* object belongs to never changes.
C4_CommitFrame ==
    [][ /\ \A s \in StageIds :
              (TransientBuilderAdd(s) \/ ContinuousBuilderAdd(s) \/ CurveBuilderAdd(s))
              => LET b == stages[s].builder
                 IN  /\ Len(pattern'[b]) = Len(pattern[b]) + 1
                     /\ IsPrefix(pattern[b], pattern'[b])
                     /\ \A o \in Sessions \ {b} : pattern'[o] = pattern[o]
                     /\ musical' = musical
                     /\ ctxHeap' = ctxHeap
                     /\ ret' = b
        /\ \A s \in StageIds : stages'[s].builder = stages[s].builder ]_vars

\* An Add has returned a session that has a musical context and whose
\* Pattern held an element before.
C4_Witness ==
    \E s \in StageIds :
        /\ commits[s] >= 1
        /\ ret = stages[s].builder
        /\ musical[ret] # 0
        /\ Len(pattern[ret]) >= 2

\* C5: every sequence-generator call returns: a call in progress is
\* eventually over.
C5_Terminates == (frame # <<>>) ~> (frame = <<>>)

OutPoints == out[1].points
Steps1 == MaxI(call[1].steps, 1)
SelectorOn(a) ==
    \/ Steps(a, call[1].steps)
    \/ EaseInOutSel(a, call[1].steps)
    \/ \E exponent \in Exponents : ExponentialSel(a, call[1].steps, exponent)

\* C6: each law returns exactly max(N, 1) control points, and each selector
\* appends exactly that many to its curve stage.
C6_PointCount ==
    /\ [](out # <<>> => Len(OutPoints) = Steps1)
    /\ [][\A a \in AnchorIds :
            (stages' # stages /\ SelectorOn(a)) =>
                Len(stages'[anchors[a].curveBuilder].points)
                    = Len(stages[anchors[a].curveBuilder].points) + Steps1]_vars

\* A call with a step count below 1 has returned, and a selector has
\* appended to the curve stage.
C6_Witness ==
    /\ out # <<>>
    /\ call[1].steps < 1
    /\ Len(stages[1].points) >= 1

\* C7: the times of the control points returned are strictly increasing.
C7_StrictlyIncreasing ==
    out # <<>> =>
        \A i \in 1..(Len(OutPoints) - 1) :
            FLess(OutPoints[i].Time, OutPoints[i + 1].Time)

\* C8: the last control point returned is the end anchor.
C8_EndsAtEndAnchor ==
    out # <<>> =>
        /\ OutPoints[Len(OutPoints)].Time = call[1].endTime
        /\ OutPoints[Len(OutPoints)].ParameterValue = call[1].endValue

\* C9: no control point returned is at the start anchor's time.
C9_NeverAtStart ==
    out # <<>> =>
        \A i \in 1..Len(OutPoints) : OutPoints[i].Time # call[1].startTime

\* The integer a float with a non-negative exponent stands for (the anchors
\* of CurveInit are such).
IntOf(x) == x.m * 2^x.e

\* The float64 nearest to a + k * (b - a) / n.
Lerp(a, b, k, n) == RoundQ(IntOf(a) * n + k * (IntOf(b) - IntOf(a)), n, 0)

\* C10: the k-th point of the linear law is (t0 + k*(t1-t0)/N,
\* v0 + (v1-v0)*k/N), and the other two laws return the same times as the
\* linear law for the same anchors and N.
C10_LinearPointsSharedTimes ==
    out # <<>> =>
        /\ out[1].law = "linear" =>
              \A k \in 1..Len(OutPoints) :
                  /\ OutPoints[k].Time
                        = Lerp(call[1].startTime, call[1].endTime, k, Steps1)
                  /\ OutPoints[k].ParameterValue
                        = Lerp(call[1].startValue, call[1].endValue, k, Steps1)
        /\ out[1].law # "linear" =>
              LET linear == LinearInterpolation(CallStart, CallEnd, call[1].steps, fma)
              IN  /\ Len(OutPoints) = Len(linear)
                  /\ \A k \in 1..Len(OutPoints) : OutPoints[k].Time = linear[k].Time

LastOf(seq) == seq[Len(seq)]
Default == NewMusicalContext(FromInt(120), 4, 4)

\* 60 / tempo as a float64, and the float64 nearest to the exact x*k*60/tempo.
SecondsPerBeat(m) == FDiv(FromInt(60), m.BPM)
ExactSeconds(m, x, k) == RoundQ(x.m * k * 60, m.BPM.m, x.e - m.BPM.e)

\* What the position and duration operations have in common, whatever the
\* conversion: the position is taken on the session's context as it stands
\* after the call, a stage copies the position's time, an Add stores the
\* stage's time and duration.
PositionsCarried(beatTime(_, _), barTime(_, _)) ==
    /\ \A b \in Sessions : \A beat \in BeatVals :
          AtBeat(b, beat) =>
              /\ LastOf(events').builder = b
              /\ LastOf(events').time = beatTime(ctxHeap'[musical'[b]], beat)
    /\ \A b \in Sessions : \A bar \in BarPositions :
          AtBar(b, bar) =>
              /\ LastOf(events').builder = b
              /\ LastOf(events').time = barTime(ctxHeap'[musical'[b]], bar)
    /\ \A e \in EventIds : \A beats \in BeatLengths :
          ContinuousBeats(e, beats) =>
              /\ LastOf(stages').time = events[e].time
              /\ LastOf(stages').duration
                    = beatTime(ctxHeap'[musical'[events[e].builder]], beats)
    /\ \A e \in EventIds : \A bars \in BarLengths :
          ContinuousBars(e, bars) =>
              /\ LastOf(stages').time = events[e].time
              /\ LastOf(stages').duration
                    = barTime(ctxHeap'[musical'[events[e].builder]], bars)
    /\ \A e \in EventIds :
          (EventBuilderTransient(e) \/ \E d \in DurationVals : EventBuilderContinuous(e, d))
              => LastOf(stages').time = events[e].time
    /\ \A s \in StageIds :
          (TransientBuilderAdd(s) \/ ContinuousBuilderAdd(s))
              => LastOf(pattern'[stages[s].builder]).Event[1].Time = stages[s].time
    /\ \A s \in StageIds :
          ContinuousBuilderAdd(s)
              => LastOf(pattern'[stages[s].builder]).Event[1].EventDuration
                    = << stages[s].duration >>

\* The worked values at tempo 120 in 4/4: beat 4 is at 2.0, beat 1 at 0.5,
\* bar 2 at 4.0, bar 1 at 2.0.
WorkedPositions ==
    /\ \A b \in Sessions : \A beat \in BeatVals :
          (AtBeat(b, beat) /\ ctxHeap'[musical'[b]] = Default) =>
              /\ beat = FromInt(4) => LastOf(events').time = F2
              /\ beat = F1 => LastOf(events').time = Half
    /\ \A b \in Sessions : \A bar \in BarPositions :
          (AtBar(b, bar) /\ ctxHeap'[musical'[b]] = Default) =>
              /\ bar = F2 => LastOf(events').time = FromInt(4)
              /\ bar = F1 => LastOf(events').time = F2

\* C11 (as amended): AtBeat(B) takes the position B * (60/tempo) and AtBar(R)
\* the position (R * beatsPerBar) * (60/tempo), each product and the quotient
\* 60/tempo rounded to float64 in that order, on the session's context;
\* ContinuousBeats and ContinuousBars take their durations the same way;
\* the event committed from the position carries that time; at tempo 120 in
\* 4/4 the worked values come out exactly.
C11_MusicalTimes ==
    [][ /\ PositionsCarried(
              LAMBDA m, beat : FMul(beat, SecondsPerBeat(m)),
              LAMBDA m, bar : FMul(FMul(bar, FromInt(BeatsPerBar(m))), SecondsPerBeat(m)))
        /\ WorkedPositions ]_vars

\* An event has been committed from a beat or bar position taken at tempo 100.
C11_Witness ==
    \E s \in StageIds : \E e \in EventIds :
        /\ commits[s] >= 1
        /\ stages[s].time = events[e].time
        /\ stages[s].builder = events[e].builder
        /\ events[e].time \notin TimeVals
        /\ musical[events[e].builder] # 0
        /\ ctxHeap[musical[events[e].builder]].BPM = FromInt(100)

\* C11 (as stated): AtBeat(B) takes the position B*60/tempo and AtBar(R) the
\* position R*beatsPerBar*60/tempo, the float64 nearest to that quantity;
\* the durations of ContinuousBeats and ContinuousBars likewise.
C11_ExactTimes ==
    [][ /\ PositionsCarried(
              LAMBDA m, beat : ExactSeconds(m, beat, 1),
              LAMBDA m, bar : ExactSeconds(m, bar, BeatsPerBar(m)))
        /\ WorkedPositions ]_vars

\* The calls of the musical converter made so far, by position in out.
MusicalCall == call[1].kind = "musical"
OtherDenominators(m) ==
    { [m EXCEPT !.Denominator = d] : d \in Denominators \cup {1, 16} }

\* C12: BeatToSeconds(numerator) = BarToSeconds(1) (one bar lasts as long
\* as its beats); the denominator changes no conversion; SecondsToBeats
\* gives back the beats BeatToSeconds was given, SecondsToBars the bars
\* BarToSeconds was given.
C12_Conversions ==
    MusicalCall =>
        /\ BeatToSeconds(call[1].m, FromInt(call[1].m.Numerator))
              = BarToSeconds(call[1].m, F1)
        /\ \A i \in 1..Len(out) : \A o \in OtherDenominators(call[1].m) :
              out[i].value = Conversion(out[i].fn, o, out[i].arg)
        /\ \A i \in 1..(Len(out) - 1) :
              /\ (out[i].fn = "BeatToSeconds" /\ out[i + 1].fn = "SecondsToBeats")
                    => out[i + 1].value = out[i].arg
              /\ (out[i].fn = "BarToSeconds" /\ out[i + 1].fn = "SecondsToBars")
                    => out[i + 1].value = out[i].arg

\* The operations that work in beats and bars, on session b.
MusicallyRelative(b) ==
    \/ \E beat \in BeatVals : AtBeat(b, beat)
    \/ \E bar \in BarPositions : AtBar(b, bar)
    \/ \E e \in EventIds :
          /\ events[e].builder = b
          /\ \/ \E bars \in BarLengths : ContinuousBars(e, bars)
             \/ \E beats \in BeatLengths : ContinuousBeats(e, beats)
    \/ Sequence(b)

\* The factories that take a time in seconds, on session b.
AbsoluteTime(b) ==
    \/ \E t \in TimeVals : Transient(b, t)
    \/ \E t \in TimeVals, d \in DurationVals : Continuous(b, t, d)
    \/ Curve(b, CurveHapticSharpness)

Done(op) == call[1].op = op /\ ret # 0
GenSession == call[1].sb
GenContext == call[1].m
Added ==
    SubSeq(pattern[GenSession], Len(call[1].base) + 1, Len(pattern[GenSession]))
BaseKept ==
    /\ IsPrefix(call[1].base, pattern[GenSession])
    /\ \A o \in Sessions \ {GenSession} : pattern[o] = <<>>
TransientAt(time, intensity, sharpness) ==
    AddHapticTransient(<<>>, time, intensity, sharpness)[1]

\* bar * beatsPerBar * (60/tempo) + beat * (60/tempo), rounded to float64 after
\* every operation, and the float64 nearest to (bar*beatsPerBar + beat)*60/tempo.
SumOfTimes(m, bar, beat) ==
    FAdd(FMul(FMul(FromInt(bar), FromInt(m.Numerator)), SecondsPerBeat(m)),
         FMul(beat, SecondsPerBeat(m)))
ExactBeatTime(m, bar, i) ==
    RoundQ((bar * m.Numerator + i) * 60, m.BPM.m, -m.BPM.e)

\* EveryBeat over a range that is not empty: the number of events, their
\* times by position (beat i of bar startBar + j is event j*beatsPerBar + i + 1),
\* their order, and the worked case of tempo 120 in 4/4 over bars 0 to 2.
EveryBeatAdds(timeOf(_, _, _)) ==
    (Done("EveryBeat") /\ call[1].startBar <= call[1].endBar) =>
        LET bpb == BeatsPerBar(GenContext)
            count == (call[1].endBar - call[1].startBar + 1) * bpb
        IN  /\ Len(Added) = count
            /\ BaseKept
            /\ \A k \in 1..count :
                  Added[k] = TransientAt(timeOf(GenContext,
                                                call[1].startBar + (k - 1) \div bpb,
                                                (k - 1) % bpb),
                                         F1, Half)
            /\ \A k \in 1..(count - 1) :
                  FLeq(ElemTime(Added[k]), ElemTime(Added[k + 1]))
            /\ (GenContext = Default /\ call[1].startBar = 0 /\ call[1].endBar = 2) =>
                  /\ count = 12
                  /\ \A k \in 1..count : ElemTime(Added[k]) = FromRatio(k - 1, 2)

\* C14 (as amended): EveryBeat(startBar, endBar) with startBar <= endBar
\* appends (endBar - startBar + 1) * beatsPerBar transients, bar by bar and
\* beat by beat, the one for beat i of a bar at BarToSeconds(bar) +
\* BeatToSeconds(i) as float64 computes that sum, in nondecreasing time
\* order; tempo 120 in 4/4 over bars 0 to 2 gives 12 events at 0.0, 0.5, ...,
\* 5.5.
C14_EveryBeat ==
    EveryBeatAdds(LAMBDA m, bar, i : SumOfTimes(m, bar, FromInt(i)))

\* EveryBeat has filled three bars of 4/4 at tempo 100 behind an element
\* that was there before.
C14_Witness ==
    /\ Done("EveryBeat")
    /\ GenContext = NewMusicalContext(FromInt(100), 4, 4)
    /\ call[1].startBar = 0
    /\ call[1].endBar = 2
    /\ Len(pattern[GenSession]) = 13

\* C14 (as stated): the events are at the times (bar*beatsPerBar + i) *
\* 60/tempo.
C14_ExactBeatTimes == EveryBeatAdds(ExactBeatTime)

\* C15: TransientsOnBeats (and TransientsOnBeatsInBar, its one-bar form)
\* appends, for each bar of [startBar, endBar] ascending and for each beat
\* offset in the order given, one transient at BarToSeconds(bar) +
\* BeatToSeconds(beat) with the given intensity and sharpness:
\* |beats| * (endBar - startBar + 1) in all, none when the range or the beat
\* set is empty; the elements already there and the other session's stay.
C15_TransientsOnBeats ==
    (Done("TransientsOnBeats") \/ Done("TransientsOnBeatsInBar")) =>
        LET beats == call[1].beats
            first == call[1].startBar
            last == IF call[1].op = "TransientsOnBeats" THEN call[1].endBar ELSE first
            count == IF first > last THEN 0 ELSE Len(beats) * (last - first + 1)
        IN  /\ Len(Added) = count
            /\ BaseKept
            /\ ret = GenSession
            /\ \A k \in 1..count :
                  Added[k] =
                     TransientAt(
                        FAdd(BarToSeconds(GenContext,
                                          FromInt(first + (k - 1) \div Len(beats))),
                             BeatToSeconds(GenContext,
                                           beats[((k - 1) % Len(beats)) + 1])),
                        F1, Half)

\* TransientsOnBeats has put beats 1 and 0, in that order, into three bars
\* behind an element that was there before.
C15_Witness ==
    /\ Done("TransientsOnBeats")
    /\ call[1].beats = <<F1, F0>>
    /\ call[1].startBar = 0
    /\ call[1].endBar = 2
    /\ call[1].base # <<>>
    /\ Len(Added) = 6
    /\ FLess(ElemTime(Added[2]), ElemTime(Added[1]))

\* The least integer not below a / n (n >= 1).
Ceil(a, n) == -((-a) \div n)

\* EveryNthBeat with n >= 1: count events, the k-th for offset i = (k-1)*n
\* of the range's beats, in bar startBar + i div beatsPerBar, which is a bar
\* of the range, on beat i mod beatsPerBar.
EveryNthBeatAdds(countOf(_, _)) ==
    Done("EveryNthBeat") =>
        LET bpb == BeatsPerBar(GenContext)
            n == call[1].n
            total == (call[1].endBar - call[1].startBar + 1) * bpb
            count == countOf(total, n)
        IN  /\ Len(Added) = count
            /\ BaseKept
            /\ ret = GenSession
            /\ \A k \in 1..count :
                  LET i == (k - 1) * n
                      bar == call[1].startBar + i \div bpb
                  IN  /\ i < total
                      /\ bar \in call[1].startBar..call[1].endBar
                      /\ Added[k] =
                            TransientAt(FAdd(BarToSeconds(GenContext, FromInt(bar)),
                                             BeatToSeconds(GenContext, FromInt(i % bpb))),
                                        F1, Half)

\* C16 (as amended): EveryNthBeat with n >= 1 appends one transient for
\* each offset i = 0, n, 2n, ... below total = (endBar - startBar + 1) *
\* beatsPerBar, at BarToSeconds(startBar + i div beatsPerBar) +
\* BeatToSeconds(i mod beatsPerBar), none in a bar outside the range:
\* ceil(total / n) events when total is positive, none otherwise.
C16_EveryNthBeat ==
    EveryNthBeatAdds(LAMBDA total, n : IF total <= 0 THEN 0 ELSE Ceil(total, n))

\* EveryNthBeat has put every third beat of three bars of 4/4 behind an
\* element that was there before: beats 0, 3, 6 and 9 of the twelve.
C16_Witness ==
    /\ Done("EveryNthBeat")
    /\ call[1].n = 3
    /\ BeatsPerBar(GenContext) = 4
    /\ call[1].startBar = 0
    /\ call[1].endBar = 2
    /\ call[1].base # <<>>
    /\ Len(Added) = 4

\* C16 (as stated): the count is ceil(total / n), whatever the range.
C16_CountIsCeiling == EveryNthBeatAdds(Ceil)

\* The invocations Pattern owes: one per bar of the range, ascending, each
\* with the session Sequence() was called on.
Invocations ==
    [k \in 1..BarCount(call[1].startBar, call[1].endBar) |->
        [b |-> GenSession, bar |-> call[1].startBar + k - 1]]

\* C17: Pattern invokes fn once per bar of [startBar, endBar] in ascending
\* order, each time with the session Sequence() was called on, and not at
\* all when startBar > endBar; it returns that session; the Pattern changes
\* only by what fn does.
C17_Pattern ==
    /\ [](call[1].op = "Pattern" =>
             /\ IsPrefix(calls, Invocations)
             /\ Done("Pattern") =>
                   /\ calls = Invocations
                   /\ ret = GenSession
                   /\ BaseKept
                   /\ Len(Added) = IF call[1].fn = "none" THEN 0 ELSE Len(Invocations))
    /\ [][(CallPattern \/ PatternTest) => pattern' = pattern]_vars

\* Pattern has returned after invoking, for bars 0, 1 and 2, a function
\* that adds an event to the session it is given, here the second session.
C17_Witness ==
    /\ Done("Pattern")
    /\ call[1].startBar = 0
    /\ call[1].endBar = 2
    /\ call[1].fn = "strong"
    /\ GenSession = 2
    /\ Len(calls) = 3
    /\ Len(Added) = 3

RECURSIVE Concat(_)
Concat(given) == IF given = <<>> THEN <<>> ELSE given[1].points \o Concat(Tail(given))

\* All points given by AddPoint and by the segments, in call order.
AllAdded(chain) == Concat(SelectSeq(chain, LAMBDA g : g.via # "Points"))

\* The list last given by Points, if any, and what was added after it.
SincePoints(chain) ==
    LET at == { i \in 1..Len(chain) : chain[i].via = "Points" }
    IN  IF at = {} THEN Concat(chain)
        ELSE Concat(SubSeq(chain, CHOOSE i \in at : \A j \in at : j <= i, Len(chain)))

\* A step that commits a curve stage appends, to its session's Pattern alone, one
\* Parameter Curve element with the start time last given to At (0 if none)
\* and the control points pointsOf makes of the calls recorded on the stage,
\* and returns the session.
CurveCommitted(pointsOf(_)) ==
    \A s \in StageIds :
          (stages[s].kind = "curve" /\ commits'[s] = commits[s] + 1) =>
              /\ pattern' =
                    [pattern EXCEPT ![stages[s].builder] =
                        Append(@, [Event |-> <<>>,
                                   ParameterCurve |->
                                     << [Time |-> IF stages[s].lastAt = <<>> THEN F0
                                                  ELSE stages[s].lastAt[1],
                                         ParameterID |-> stages[s].parameterID,
                                         ParameterCurveControlPoints |->
                                             pointsOf(stages[s].chain)] >>])]
              /\ ret' = stages[s].builder

FreqCalls(freqs) ==
    { i \in 1..Len(out) : out[i].fn = "FreqToSharpness" /\ out[i].arg \in freqs }
InBand(f) == ~IsNaN(f) /\ ~FLess(f, Hz(80)) /\ ~FLess(Hz(230), f)
AtMost(x, y) == ~IsNaN(x) /\ ~IsNaN(y) /\ ~FLess(y, x)

FreqErrors(freqs) ==
    \A i \in FreqCalls(freqs) :
        /\ out[i].err # "" <=> (~call[1].normalize /\ ~InBand(out[i].arg))
        /\ call[1].normalize => out[i].err = ""
        /\ out[i].err # "out of range"
        /\ out[i].err # "" => out[i].value = F0

\* C19: FreqToSharpness(freq, clamp) returns an error exactly when clamp is
\* false and freq is not within [80, 230]; with clamp true it never fails;
\* the out-of-[0,1] error is never returned; on error the value is 0.
C19_FreqErrors == FreqErrors(FreqVals)

\* min(max(f, 80), 230) as math.Min and math.Max compute it.
Clamped(f) ==
    IF IsNaN(f) THEN NaN
    ELSE IF FLess(f, Hz(80)) THEN Hz(80)
    ELSE IF FLess(Hz(230), f) THEN Hz(230) ELSE f

FreqClamped(freqs) ==
    \A i \in FreqCalls(freqs) :
        call[1].normalize =>
            /\ out[i].err = ""
            /\ FreqToSharpness(Clamped(out[i].arg), FALSE).err = ""
            /\ AtMost(out[i].value, FreqToSharpness(Clamped(out[i].arg), FALSE).value)
            /\ AtMost(FreqToSharpness(Clamped(out[i].arg), FALSE).value, out[i].value)
            /\ Less(out[i].arg, Hz(80)) => out[i].value = F0
            /\ Less(Hz(230), out[i].arg) => out[i].value = F1
            /\ AtMost(F0, out[i].value) /\ AtMost(out[i].value, F1)
            /\ \A g \in freqs :
                  AtMost(g, out[i].arg) =>
                      AtMost(FreqToSharpness(g, TRUE).value, out[i].value)

\* C20: for every frequency f, FreqToSharpness(f, clamp=true) succeeds and
\* equals FreqToSharpness(min(max(f, 80), 230), clamp=false); below 80 it is
\* the value at 80, which is 0, above 230 the value at 230, which is 1; it
\* is nondecreasing in f and always within [0, 1].
C20_FreqClamped == FreqClamped(FreqVals)

\* C21: a Document that was encoded (indented or not) and decoded again is
\* equal to the Document encoded: version, metadata, the Pattern elements in
\* order with their variant and field values, a duration or waveform path
\* absent where it was absent and present with the same value where it was
\* present.
C21_RoundTrip ==
    (out # <<>> /\ out[1].decoded # <<>>) => out[1].decoded[1] = out[1].a

\* The Events of the Documents: (session, index) of every element that is
\* an Event.
EventsBuilt == {bi \in Sessions \X (1..MaxPattern) :
                   bi[2] <= Len(pattern[bi[1]]) /\ pattern[bi[1]][bi[2]].Event # <<>>}
EventOf(bi) == pattern[bi[1]][bi[2]].Event[1]
Sustained == {EventTypeHapticContinuous, EventTypeAudioContinuous}
ParameterIDs(ev) == [i \in 1..Len(ev.EventParameters) |-> ev.EventParameters[i].ParameterID]

\* C22: in every Document built through the four Add functions and the
\* builder commits, an Event has a duration exactly when its kind is
\* sustained and a waveform path exactly when its kind is AudioCustom; a
\* transient haptic event has the two parameters HapticIntensity, then
\* HapticSharpness; and adding an element leaves the elements already there,
\* their durations included, as they are.
C22_OptionalFields ==
    /\ [](\A bi \in EventsBuilt :
             /\ EventOf(bi).EventDuration # <<>> <=> EventOf(bi).EventType \in Sustained
             /\ EventOf(bi).EventWaveformPath # <<>>
                   <=> EventOf(bi).EventType = EventTypeAudioCustom
             /\ EventOf(bi).EventType = EventTypeHapticTransient
                   => ParameterIDs(EventOf(bi))
                         = << ParamHapticIntensity, ParamHapticSharpness >>)
    /\ [][\A b \in Sessions : IsPrefix(pattern[b], pattern'[b])]_vars

\* A Document holds a haptic continuous event of duration 0 added directly,
\* followed by a continuous event of duration 1 that a builder stage
\* committed.
C22_Witness ==
    \E s \in StageIds :
        /\ commits[s] = 1
        /\ Len(pattern[stages[s].builder]) = 2
        /\ pattern[stages[s].builder][1].Event # <<>>
        /\ pattern[stages[s].builder][1].Event[1].EventType = EventTypeHapticContinuous
        /\ pattern[stages[s].builder][1].Event[1].EventDuration = << F0 >>
        /\ pattern[stages[s].builder][2].Event # <<>>
        /\ pattern[stages[s].builder][2].Event[1].EventType = EventTypeHapticContinuous
        /\ pattern[stages[s].builder][2].Event[1].EventDuration = << F1 >>

StagedEvents == {s \in StageIds : stages[s].kind \in {"transient", "continuous"}}
LastOr(given, default) == IF given = <<>> THEN default ELSE given[1]

Processed(n) == call[1].tracks[calls[n].track][calls[n].index]
Melodic(n) == ~(call[1].drums /\ isDrumChannel(Processed(n).channel))
SameNote(n, m) ==
    /\ Processed(n).message \in {"NoteStart", "NoteEnd"}
    /\ Processed(n).channel = Processed(m).channel
    /\ Processed(n).key = Processed(m).key
\* The note started by event n is closed by event m: m is the next event of
\* the same channel and key, it is a note end, and it is later in time.
Closes(n, m) ==
    /\ n < m
    /\ Processed(n).message = "NoteStart"
    /\ Processed(m).message = "NoteEnd"
    /\ Melodic(m)
    /\ SameNote(n, m)
    /\ \A k \in (n + 1)..(m - 1) : ~SameNote(k, m)
    /\ FLess(calls[n].time, calls[m].time)
\* The (time, duration) of the melodic notes closed by the first m events, in
\* the order in which they end.
RECURSIVE NotesClosed(_)
NotesClosed(m) ==
    IF m = 0 THEN <<>>
    ELSE NotesClosed(m - 1) \o
         (IF \E n \in 1..m : Closes(n, m)
          THEN LET n == CHOOSE n \in 1..m : Closes(n, m)
               IN  << << calls[n].time, FSub(calls[m].time, calls[n].time) >> >>
          ELSE <<>>)
\* The (time, duration) of the continuous events of a Pattern, in order.
RECURSIVE ContinuousNotes(_)
ContinuousNotes(p) ==
    IF p = <<>> THEN <<>>
    ELSE (IF p[1].Event # <<>> /\ p[1].Event[1].EventType = EventTypeHapticContinuous
          THEN << << p[1].Event[1].Time, p[1].Event[1].EventDuration[1] >> >>
          ELSE <<>>) \o ContinuousNotes(Tail(p))

\* C24: while midi2ahap converts a file, the continuous events emitted so
\* far are exactly the melodic notes closed so far, one per note, each with
\* the time of its note start and the time between its start and its end as
\* duration, also when notes of one key overlap on different channels or
\* tracks; a note end with no open note adds nothing.
C24_NotesKept ==
    (frame # <<>> /\ "noteState" \in DOMAIN frame[1])
        => ContinuousNotes(pattern[1]) = NotesClosed(Len(calls))

\* The seconds of one quarter note in effect when the n-th processed event
\* arrives: that of the last tempo change before it, else of 120 BPM.
QuarterBefore(n) ==
    LET tempos == {k \in 1..(n - 1) : Processed(k).message = "MetaTempo"}
    IN  IF tempos = {} THEN FDiv(FromInt(500000), FromInt(1000000))
        ELSE LET last == CHOOSE k \in tempos : \A o \in tempos : o <= k
             IN  FDiv(FDiv(FromInt(60000000), FromInt(Processed(last).bpm)),
                      FromInt(1000000))
\* The sum, over the tick intervals of its track up to the n-th processed
\* event, of the interval's quarter notes times the quarter length then.
RECURSIVE Elapsed(_)
Elapsed(n) ==
    FAdd(IF calls[n].index = 1 THEN F0 ELSE Elapsed(n - 1),
         FMul(FDiv(FromInt(Processed(n).Delta), FromInt(call[1].ticksPerQuarterNote)),
              QuarterBefore(n)))

\* C25: every event is given the time that is the sum of its track's tick
\* intervals, each converted with the tempo in effect during it, and the
\* time never decreases along a track.
C25_TickTime ==
    /\ [](\A n \in 1..Len(calls) :
             "track" \in DOMAIN calls[n] => calls[n].time = Elapsed(n))
    /\ [][(MidiEvent /\ frame[1].index > 1)
             => FLeq(frame[1].currentTime, frame'[1].currentTime)]_vars


\* ------------------------------------------------------------------------
\* Musical positions and later changes of the context
\* ------------------------------------------------------------------------
\* C26: the time of a musical position is the one resolved on the session's
\* context at the AtBeat or AtBar call: the position keeps it whatever
\* WithBPM, WithTimeSignature or WithMusicalContext do afterwards, a stage
\* made from the position takes it and keeps it, the Add of the stage stores
\* it, and no step changes an element that a Document holds already.
C26_TimeAtPosition ==
    /\ [](\A e \in EventIds :
             events[e].time = PositionTime(events[e].context, events[e].position))
    /\ [][ /\ \A e \in EventIds :
                 (\/ EventBuilderTransient(e)
                  \/ \E d \in DurationVals : EventBuilderContinuous(e, d)
                  \/ \E bars \in BarLengths : ContinuousBars(e, bars)
                  \/ \E beats \in BeatLengths : ContinuousBeats(e, beats))
                     => LastOf(stages').time
                            = PositionTime(events[e].context, events[e].position)
           /\ \A s \in StageIds :
                 /\ stages'[s].time = stages[s].time
                 /\ (TransientBuilderAdd(s) \/ ContinuousBuilderAdd(s))
                       => LastOf(pattern'[stages[s].builder]).Event[1].Time
                              = stages[s].time
           /\ \A b \in Sessions : IsPrefix(pattern[b], pattern'[b])
           /\ (\E b \in Sessions : musical'[b] # musical[b]
                                   \/ (musical[b] # 0 /\ ctxHeap'[musical[b]] # ctxHeap[musical[b]]))
                 => pattern' = pattern /\ \A s \in StageIds : stages'[s] = stages[s] ]_vars

\* An event was committed from a position taken before the session's tempo
\* or signature was changed: its time is that of the position at the old
\* context and differs from the time the position has on the present one.
C26_Witness ==
    \E s \in StageIds : \E e \in EventIds :
        /\ commits[s] >= 1
        /\ stages[s].builder = events[e].builder
        /\ stages[s].time = events[e].time
        /\ events[e].time \notin TimeVals
        /\ musical[events[e].builder] # 0
        /\ ctxHeap[musical[events[e].builder]] # events[e].context
        /\ LastOf(pattern[events[e].builder]).Event[1].Time
               = PositionTime(events[e].context, events[e].position)
        /\ PositionTime(ctxHeap[musical[events[e].builder]], events[e].position)
               # events[e].time

\* C27: every session that has handed out a SequenceBuilder has a musical
\* context, with a beats-per-bar that is not negative, whenever a call can
\* be made on it: so TransientsOnBeats, EveryBeat and EveryNthBeat find the
\* context they read, whatever Sequence, WithBPM, WithTimeSignature and
\* WithMusicalContext calls came before.
C27_SequenceContext ==
    Idle => \A b \in seqBuilders :
                /\ musical[b] # 0
                /\ BeatsPerBar(ctxHeap[musical[b]]) >= 0

\* The sessions that hold the same context object as session b.
Sharing(b) == {o \in Sessions : musical[o] = musical[b]}
\* The tempo and the signature of session o's context after the step.
TempoAfter(o) == ctxHeap'[musical'[o]].BPM
SignatureAfter(o) == << ctxHeap'[musical'[o]].Numerator, ctxHeap'[musical'[o]].Denominator >>
SignatureOf(o) == << ctxHeap[musical[o]].Numerator, ctxHeap[musical[o]].Denominator >>

\* C28: WithMusicalContext makes the session hold the very context object it
\* is given, and no copy. WithBPM and WithTimeSignature on a session that has
\* a context change that object: every session holding it has the new tempo
\* (or signature) afterwards and resolves AtBeat and AtBar with it, and the
\* contexts of the other sessions stay as they are. A context made by
\* WithBPM, WithTimeSignature, AtBeat, AtBar or Sequence for a session that
\* had none is a new object that no other session holds.
C28_SharedContext ==
    [][ /\ \A b \in Sessions : \A m \in 0..Len(ctxHeap) :
              WithMusicalContext(b, m) => musical'[b] = m /\ ctxHeap' = ctxHeap
        /\ \A b \in Sessions : \A bpm \in BPMVals :
              (WithBPM(b, bpm) /\ musical[b] # 0) =>
                  \A o \in Sessions :
                      /\ musical'[o] = musical[o]
                      /\ o \in Sharing(b) =>
                            TempoAfter(o) = bpm /\ SignatureAfter(o) = SignatureOf(o)
                      /\ (o \notin Sharing(b) /\ musical[o] # 0) =>
                            ctxHeap'[musical[o]] = ctxHeap[musical[o]]
        /\ \A b \in Sessions : \A sig \in SignatureVals :
              (WithTimeSignature(b, sig[1], sig[2]) /\ musical[b] # 0) =>
                  \A o \in Sessions :
                      /\ musical'[o] = musical[o]
                      /\ o \in Sharing(b) =>
                            /\ SignatureAfter(o) = sig
                            /\ TempoAfter(o) = ctxHeap[musical[o]].BPM
                      /\ (o \notin Sharing(b) /\ musical[o] # 0) =>
                            ctxHeap'[musical[o]] = ctxHeap[musical[o]]
        /\ \A o \in Sessions :
              /\ \A beat \in BeatVals :
                    (AtBeat(o, beat) /\ musical[o] # 0) =>
                        LastOf(events').time = BeatToSeconds(ctxHeap[musical[o]], beat)
              /\ \A bar \in BarPositions :
                    (AtBar(o, bar) /\ musical[o] # 0) =>
                        LastOf(events').time = BarToSeconds(ctxHeap[musical[o]], bar)
        /\ \A b \in Sessions :
              (musical[b] = 0 /\ musical'[b] # 0
                  /\ ~ \E m \in 1..Len(ctxHeap) : WithMusicalContext(b, m)) =>
                  /\ musical'[b] = Len(ctxHeap) + 1
                  /\ \A o \in Sessions \ {b} : musical'[o] = musical[o] /\ musical'[o] # musical'[b]
                  /\ SubSeq(ctxHeap', 1, Len(ctxHeap)) = ctxHeap ]_vars

\* The two sessions hold one context at tempo 100, the latest configuring
\* call was made on one of them, and the other has taken a position that is
\* resolved on that context.
C28_Witness ==
    \E b \in Sessions : \E e \in EventIds :
        /\ ret = b
        /\ events[e].builder # b
        /\ musical[b] # 0
        /\ musical[events[e].builder] = musical[b]
        /\ ctxHeap[musical[b]].BPM = FromInt(100)
        /\ events[e].context = ctxHeap[musical[b]]
        /\ events[e].time = PositionTime(ctxHeap[musical[b]], events[e].position)

\* C29: WithBPM writes the tempo and WithTimeSignature the signature of the
\* session's context, each leaving the other field as it is, so that the two
\* calls in either order leave the tempo of the one and the signature of the
\* other; on a session without context WithBPM gives the tempo in 4/4 and
\* WithTimeSignature gives tempo 120 in the signature; neither call changes
\* a Document.
C29_Configure ==
    [][ /\ \A b \in Sessions : \A bpm \in ConfigBPMs :
              WithBPM(b, bpm) =>
                  /\ TempoAfter(b) = bpm
                  /\ SignatureAfter(b) = (IF musical[b] = 0 THEN <<4, 4>> ELSE SignatureOf(b))
                  /\ pattern' = pattern
        /\ \A b \in Sessions : \A sig \in ConfigSignatures :
              WithTimeSignature(b, sig[1], sig[2]) =>
                  /\ SignatureAfter(b) = sig
                  /\ TempoAfter(b) = (IF musical[b] = 0 THEN FromInt(120)
                                      ELSE ctxHeap[musical[b]].BPM)
                  /\ pattern' = pattern ]_vars

\* A session whose Document holds an element has a context whose tempo and
\* signature are both other than the defaults: the tempo was set by WithBPM
\* and the signature by WithTimeSignature, in one order or the other.
C29_Witness ==
    \E b \in Sessions :
        /\ pattern[b] # <<>>
        /\ musical[b] # 0
        /\ ctxHeap[musical[b]].BPM \in ConfigBPMs
        /\ SignatureOf(b) \in ConfigSignatures

\* ------------------------------------------------------------------------
\* The sequence generator: operations that are forms of one another
\* ------------------------------------------------------------------------
\* The one call of the behaviour has returned.
Returned(op) == call[1].op = op /\ ret # 0 /\ frame = <<>>
\* What EveryBeat appends to the Document the call started with.
EveryBeatAppends ==
    OnBars(call[1].base, call[1].m,
           [i \in 1..BeatsPerBar(call[1].m) |-> FromInt(i - 1)],
           call[1].startBar, call[1].endBar, F1, Half)

\* C30: on every session and bar range, EveryNthBeat(1, startBar, endBar, ..)
\* returns as EveryBeat(startBar, endBar, ..) does, with the same events
\* appended in the same order, and TransientsOnBeatsInBar(beats, bar, ..)
\* appends what TransientsOnBeats(beats, bar, bar, ..) appends.
C30_SameEvents ==
    /\ (Returned("EveryNthBeat") /\ call[1].n = 1) =>
          /\ BeatsPerBar(call[1].m) >= 0
          /\ pattern[call[1].sb] = EveryBeatAppends
    /\ Returned("EveryBeat") => pattern[call[1].sb] = EveryBeatAppends
    /\ Returned("TransientsOnBeatsInBar") =>
          pattern[call[1].sb] = OnBars(call[1].base, call[1].m, call[1].beats,
                                       call[1].startBar, call[1].startBar, F1, Half)

====
